---------------------------- MODULE Spec2Model ----------------------------
(***************************************************************************)
(* Model of the image-optimization core:                                   *)
(*   - the Key Normalizer   (src/functions/url-rewrite/index.js)           *)
(*   - the Variant Orchestrator (src/functions/image-processing/index.mjs) *)
(*   - the Warm-Cache Fan-Out (handleS3Upload of the same file)            *)
(* JavaScript strings are sequences of one-character strings, so that      *)
(* parseInt, includes, split, replace and concatenation are computed       *)
(* character by character as the runtime computes them.                    *)
(***************************************************************************)
EXTENDS Integers, Sequences, FiniteSets, TLC

VARIABLES
    event,      \* Key Normalizer: the request as it entered the handler
    request,    \* Key Normalizer: the request object the handler mutates and returns
    caught,     \* Key Normalizer: TRUE iff the catch block produced the return value
    nzPc        \* Key Normalizer: "ready" before the call, then "returned" or "threw"

nzVars == <<event, request, caught, nzPc>>

VARIABLES
    lambdaEvent,        \* Variant Orchestrator: the event of the current invocation
    orchPc,             \* Variant Orchestrator: the await the invocation stands at
    invocations,        \* Variant Orchestrator: invocations started so far
    bucketConfigured,   \* whether S3_TRANSFORMED_IMAGE_BUCKET is set in the environment
    originStore,        \* the origin bucket: key -> object
    transformedStore,   \* the transformed-variant bucket: a set of records, one per Key
    originalImagePath,  \* locals of the invocation, named as in the source
    operationsPrefix,
    contentType,
    transformedImage,
    timingLog,
    putOutcome,         \* "none", "ok" or "failed": how s3Client.send(putImageCommand) ended
    response,           \* the value the invocation returned
    calls,              \* the awaited external calls of the invocation, in order
    codec,              \* the codec as a function: <<source, operations>> -> byte length
    previous            \* how the invocation before the current one ended

orchVars == <<lambdaEvent, orchPc, invocations, bucketConfigured, originStore,
              transformedStore, originalImagePath, operationsPrefix, contentType,
              transformedImage, timingLog, putOutcome, response, calls, codec,
              previous>>

\* the handler's variables other than the transformed-variant bucket
handlerVars == <<lambdaEvent, orchPc, invocations, bucketConfigured, originStore,
                 originalImagePath, operationsPrefix, contentType,
                 transformedImage, timingLog, putOutcome, response, calls, codec,
                 previous>>

VARIABLES
    s3Event,        \* Warm-Cache Fan-Out: the upload notification being handled
    fanPc,          \* Warm-Cache Fan-Out: the await handleS3Upload stands at
    tasks,          \* optimizationTasks: cell -> the await or the end its promise is at
    fanResponse     \* the value handleS3Upload returned

fanVars == <<s3Event, fanPc, tasks, fanResponse>>

vars == <<nzVars, orchVars, fanVars>>

(***************************************************************************)
(* Bounds of the input space.                                              *)
(***************************************************************************)
\* widths 0..MaxSmall are offered as decimal width values
MaxSmall == 2
\* widths up to MAX_WIDTH + MaxOver are offered as decimal width values
MaxOver == 2
\* invocations of the Variant Orchestrator in one behaviour
MaxRequests == 2
\* each measured duration of the timing log is in 0..MaxDur
MaxDur == 1
\* the value of process.env.maxImageSize the function is deployed with
MaxImageSizeSetting == 2
\* the Fan-Out is followed for the first MaxWidths of its common widths
MaxWidths == 1

(***************************************************************************)
(* String literals of the source, character by character.                  *)
(***************************************************************************)
AVIF == <<"a", "v", "i", "f">>
WEBP == <<"w", "e", "b", "p">>
JPEG == <<"j", "p", "e", "g">>
SLASH == <<"/">>
COMMA == <<",">>
SLASH_FORMAT_EQ == <<"/", "f", "o", "r", "m", "a", "t", "=">>
FORMAT_EQ == <<"f", "o", "r", "m", "a", "t", "=">>
WIDTH_EQ == <<"w", "i", "d", "t", "h", "=">>
COMMA_WIDTH_EQ == <<",", "w", "i", "d", "t", "h", "=">>

\* const COMMON_WIDTHS = [300, 600, 800, 1200];
COMMON_WIDTHS == <<300, 600, 800, 1200>>

\* if (width > 4000) width = 4000;
MAX_WIDTH == 4000

(***************************************************************************)
(* JavaScript primitives used by the handlers.                             *)
(***************************************************************************)
DecDigits == <<"0", "1", "2", "3", "4", "5", "6", "7", "8", "9">>
HexLower == <<"0", "1", "2", "3", "4", "5", "6", "7", "8", "9",
              "a", "b", "c", "d", "e", "f">>
HexUpper == <<"0", "1", "2", "3", "4", "5", "6", "7", "8", "9",
              "A", "B", "C", "D", "E", "F">>

\* Numbers are [nan, n]: NaN is a value of the Number type.
NaN == [nan |-> TRUE, n |-> 0]
Num(k) == [nan |-> FALSE, n |-> k]

\* the value of character c as a digit of radix R, or -1 when it is none
DigitValue(c, R) ==
    IF \E i \in 1..R : HexLower[i] = c
    THEN (CHOOSE i \in 1..R : HexLower[i] = c) - 1
    ELSE IF \E i \in 1..R : HexUpper[i] = c
         THEN (CHOOSE i \in 1..R : HexUpper[i] = c) - 1
         ELSE -1

IsWhiteSpace(c) == c \in {" ", "\t", "\n", "\r"}

RECURSIVE StripLeadingWhiteSpace(_)
StripLeadingWhiteSpace(s) ==
    IF Len(s) > 0 /\ IsWhiteSpace(Head(s))
    THEN StripLeadingWhiteSpace(Tail(s))
    ELSE s

\* the value of the longest prefix of s made of radix-R digits, from acc;
\* seen tells whether any digit was consumed
RECURSIVE ParseDigits(_, _, _, _)
ParseDigits(s, R, acc, seen) ==
    IF Len(s) > 0 /\ DigitValue(Head(s), R) >= 0
    THEN ParseDigits(Tail(s), R, acc * R + DigitValue(Head(s), R), TRUE)
    ELSE IF seen THEN Num(acc) ELSE NaN

\* parseInt(string) with no radix argument
parseInt(string) ==
    LET S1 == StripLeadingWhiteSpace(string)
        neg == Len(S1) > 0 /\ Head(S1) = "-"
        S2 == IF Len(S1) > 0 /\ Head(S1) \in {"+", "-"} THEN Tail(S1) ELSE S1
        hex == Len(S2) >= 2 /\ S2[1] = "0" /\ S2[2] \in {"x", "X"}
        S3 == IF hex THEN Tail(Tail(S2)) ELSE S2
        R == IF hex THEN 16 ELSE 10
        v == ParseDigits(S3, R, 0, FALSE)
    IN IF v.nan THEN NaN ELSE IF neg THEN Num(0 - v.n) ELSE v

\* Number.prototype.toString() and string concatenation of an integer
RECURSIVE toString(_)
toString(k) ==
    IF k < 0 THEN <<"-">> \o toString(0 - k)
    ELSE IF k < 10 THEN <<DecDigits[k + 1]>>
    ELSE toString(k \div 10) \o <<DecDigits[(k % 10) + 1]>>

\* String.prototype.includes(sub)
includes(s, sub) ==
    \E i \in 1..(Len(s) - Len(sub) + 1) : SubSeq(s, i, i + Len(sub) - 1) = sub

\* Array.prototype.includes(x) on an array of numbers (NaN is in none)
arrayIncludes(arr, x) == ~x.nan /\ \E i \in 1..Len(arr) : arr[i] = x.n

\* querystring[name]: the entry stored under exactly that key
HasKey(querystring, name) ==
    \E i \in 1..Len(querystring.params) : querystring.params[i].name = name
Lookup(querystring, name) ==
    querystring.params[CHOOSE i \in 1..Len(querystring.params) :
                           querystring.params[i].name = name]

EmptyQuery == [defined |-> TRUE, params |-> <<>>]

(***************************************************************************)
(* Key Normalizer: handler(event) of url-rewrite/index.js.                 *)
(***************************************************************************)
\* lines 14-17 raise a TypeError when request.headers is undefined or when
\* the accept entry has no value
AcceptThrows(headers) ==
    \/ ~headers.defined
    \/ headers.hasAccept /\ ~headers.accept.hasValue

\* lines 15-19, a plausible slip: webp is tested before avif
NegotiatedFormat_WebpFirst(headers) ==
    IF headers.hasAccept
    THEN IF includes(headers.accept.value, WEBP) THEN WEBP
         ELSE IF includes(headers.accept.value, AVIF) THEN AVIF
         ELSE JPEG
    ELSE JPEG

\* lines 10-20
NegotiatedFormat(headers) ==
    IF headers.hasAccept
    THEN IF includes(headers.accept.value, AVIF) THEN AVIF
         ELSE IF includes(headers.accept.value, WEBP) THEN WEBP
         ELSE JPEG
    ELSE JPEG

\* lines 22-27
NoQueryBranch(req) ==
    ~req.querystring.defined \/ Len(req.querystring.params) = 0

\* lines 30-32: the requested width is one of the pre-generated ones
FastPath(req) ==
    /\ HasKey(req.querystring, "width")
    /\ arrayIncludes(COMMON_WIDTHS, parseInt(Lookup(req.querystring, "width").value))

\* line 46, a plausible slip: zero passes
ValidWidth_AllowsZero(width) == ~width.nan /\ width.n >= 0

\* line 46: !isNaN(width) && width > 0
ValidWidth(width) == ~width.nan /\ width.n > 0

\* line 47, a plausible slip: the clamp is missing
ClampWidth_None(k) == k

\* line 47: if (width > 4000) width = 4000;
ClampWidth(k) == IF k > MAX_WIDTH THEN MAX_WIDTH ELSE k

\* lines 40-50: normalizedOperations as [format, hasWidth, width]
NormalizedOperations(req, format) ==
    IF /\ HasKey(req.querystring, "width")
       /\ Len(Lookup(req.querystring, "width").value) > 0
    THEN LET width == parseInt(Lookup(req.querystring, "width").value) IN
         IF ValidWidth(width)
         THEN [format |-> format, hasWidth |-> TRUE,
               width |-> toString(ClampWidth(width.n))]
         ELSE [format |-> format, hasWidth |-> FALSE, width |-> <<>>]
    ELSE [format |-> format, hasWidth |-> FALSE, width |-> <<>>]

\* lines 52-56: normalizedOperationsArray.join(',')
JoinOperations(ops) ==
    LET f == IF Len(ops.format) > 0 THEN <<FORMAT_EQ \o ops.format>> ELSE <<>>
        w == IF ops.hasWidth /\ Len(ops.width) > 0
             THEN <<WIDTH_EQ \o ops.width>> ELSE <<>>
        arr == f \o w
    IN IF Len(arr) = 0 THEN <<>>
       ELSE IF Len(arr) = 1 THEN arr[1]
       ELSE arr[1] \o COMMA \o arr[2]

\* line 24, a plausible slip: the sentinel of an earlier variant of the handler
NoQueryUri_Original(imagePath, format) ==
    imagePath \o <<"/", "o", "r", "i", "g", "i", "n", "a", "l">>

\* line 24, a plausible slip: a default width marker is appended
NoQueryUri_DefaultWidth(imagePath, format) ==
    imagePath \o SLASH_FORMAT_EQ \o format \o COMMA_WIDTH_EQ
        \o toString(COMMON_WIDTHS[Len(COMMON_WIDTHS)])

\* line 24: request.uri = originalImagePath + '/format=' + format
NoQueryUri(imagePath, format) ==
    imagePath \o SLASH_FORMAT_EQ \o format

\* line 33, a plausible slip: the raw parameter value is appended
FastPathUri_Raw(imagePath, format, value) ==
    imagePath \o SLASH_FORMAT_EQ \o format \o COMMA_WIDTH_EQ \o value

\* lines 31-33: originalImagePath + '/format=' + format + ',width=' + requestedWidth
FastPathUri(imagePath, format, value) ==
    imagePath \o SLASH_FORMAT_EQ \o format \o COMMA_WIDTH_EQ
        \o toString(parseInt(value).n)

\* line 56: originalImagePath + '/' + normalizedOperationsArray.join(',')
GeneralUri(imagePath, ops) ==
    imagePath \o SLASH \o JoinOperations(ops)

\* lines 60-63, a plausible slip: no catch block, the error escapes
OnError_Rethrow(req) == [request |-> req, caught |-> FALSE, threw |-> TRUE]

\* lines 60-63: catch (error) { return request; }
OnError(req) == [request |-> req, caught |-> TRUE, threw |-> FALSE]

\* the whole handler: the returned request, whether the catch block returned
\* it, and whether an exception escaped
handler(req) ==
    LET imagePath == req.uri IN
    IF AcceptThrows(req.headers)
    THEN OnError(req)
    ELSE LET format == NegotiatedFormat(req.headers)
             uri == IF NoQueryBranch(req)
                    THEN NoQueryUri(imagePath, format)
                    ELSE IF FastPath(req)
                    THEN FastPathUri(imagePath, format,
                                     Lookup(req.querystring, "width").value)
                    ELSE GeneralUri(imagePath,
                                    NormalizedOperations(req, format))
         IN [request |-> [req EXCEPT !.uri = uri, !.querystring = EmptyQuery],
             caught |-> FALSE, threw |-> FALSE]

(***************************************************************************)
(* The requests offered to the Key Normalizer.                             *)
(***************************************************************************)
Paths == {<<"/", "a", ".", "j", "p", "g">>, <<"/", "i", "/", "b">>}

NoValue == [hasValue |-> FALSE, value |-> <<>>]
AcceptValues ==
    {<<>>, <<"i", "/">> \o AVIF, WEBP \o COMMA \o AVIF, WEBP,
     <<"*", "/", "*">>, <<"A", "V", "I", "F">>}
HeaderCases ==
    {[defined |-> FALSE, hasAccept |-> FALSE, accept |-> NoValue],
     [defined |-> TRUE, hasAccept |-> FALSE, accept |-> NoValue],
     [defined |-> TRUE, hasAccept |-> TRUE, accept |-> NoValue]}
    \cup {[defined |-> TRUE, hasAccept |-> TRUE,
           accept |-> [hasValue |-> TRUE, value |-> v]] : v \in AcceptValues}

Range(seq) == {seq[i] : i \in 1..Len(seq)}

WidthNumbers ==
    (0..MaxSmall) \cup Range(COMMON_WIDTHS) \cup ((MAX_WIDTH - 1)..(MAX_WIDTH + MaxOver))
DecimalValues == {toString(k) : k \in WidthNumbers}
Decorations(d) ==
    {<<"-">> \o d, <<"+">> \o d, <<" ">> \o d, <<"0", "x">> \o d,
     d \o <<"p", "x">>, d \o <<".", "5">>}
DecoratedValues ==
    UNION {Decorations(toString(k)) :
             k \in {MaxSmall, COMMON_WIDTHS[1], MAX_WIDTH + MaxOver}}
OddValues ==
    {<<>>, <<"a", "b", "c">>, <<"p", "x", "3", "0", "0">>, <<"-">>, <<"0", "x">>,
     <<"0", "x", "1", "2", "c">>, <<"0", "3", "0", "0">>}
WidthValues == DecimalValues \cup DecoratedValues \cup OddValues
FewValues == {toString(COMMON_WIDTHS[1]), toString(MAX_WIDTH + MaxOver)}

\* the values each parameter name is offered with
ParamNames == {"width", "Width", "height"}
ValuesOf(name) ==
    IF name = "width" THEN WidthValues
    ELSE IF name = "Width" THEN FewValues
    ELSE {<<"1">>, toString(COMMON_WIDTHS[2])}

\* a querystring object: its keys are distinct and keep their insertion order
RECURSIVE ParamSeqs(_)
ParamSeqs(names) ==
    {<<>>} \cup UNION {
        {<<[name |-> nm, value |-> v]>> \o rest :
            v \in ValuesOf(nm), rest \in ParamSeqs(names \ {nm})} : nm \in names}

QueryStrings ==
    {[defined |-> FALSE, params |-> <<>>]}
    \cup {[defined |-> TRUE, params |-> ps] : ps \in ParamSeqs(ParamNames)}

Requests ==
    {[uri |-> p, querystring |-> q, headers |-> h] :
        p \in Paths, q \in QueryStrings, h \in HeaderCases}

(***************************************************************************)
(* Variant Orchestrator: handler(event) of image-processing/index.mjs.     *)
(***************************************************************************)
IMAGE_SLASH == <<"i", "m", "a", "g", "e", "/">>
PNG == <<"p", "n", "g">>
SVG_XML == <<"s", "v", "g", "+", "x", "m", "l">>
AUTO == <<"a", "u", "t", "o">>
FORMAT == <<"f", "o", "r", "m", "a", "t">>
WIDTH == <<"w", "i", "d", "t", "h">>

\* const MAX_IMAGE_SIZE = parseInt(process.env.maxImageSize);
MAX_IMAGE_SIZE == MaxImageSizeSetting

\* const TRANSFORMED_IMAGE_CACHE_TTL = process.env.transformedImageCacheTTL;
TRANSFORMED_IMAGE_CACHE_TTL == "process.env.transformedImageCacheTTL"

\* String.prototype.split(c) for a one-character separator c
RECURSIVE split(_, _)
split(s, c) ==
    IF \E i \in 1..Len(s) : s[i] = c
    THEN LET k == CHOOSE i \in 1..Len(s) : s[i] = c /\ \A j \in 1..(i - 1) : s[j] # c
         IN <<SubSeq(s, 1, k - 1)>> \o split(SubSeq(s, k + 1, Len(s)), c)
    ELSE <<s>>

\* Array.prototype.join(sep)
RECURSIVE join(_, _)
join(arr, sep) ==
    IF Len(arr) = 0 THEN <<>>
    ELSE IF Len(arr) = 1 THEN arr[1]
    ELSE arr[1] \o sep \o join(Tail(arr), sep)

\* String.prototype.replace(/,/g, "&")
replaceCommas(s) == [i \in 1..Len(s) |-> IF s[i] = "," THEN "&" ELSE s[i]]

\* lines 51-53: the last segment of the path
OperationsPrefixOf(path) == LET arr == split(path, "/") IN arr[Len(arr)]

\* lines 51-56: pop the operations, shift the leading empty segment, join
OriginalImagePathOf(path) ==
    LET arr == split(path, "/")
        popped == SubSeq(arr, 1, Len(arr) - 1)
    IN join(IF Len(popped) = 0 THEN popped ELSE Tail(popped), SLASH)

\* line 75: Object.fromEntries(operationsPrefix.split(',').map(o => o.split('=')));
\* operationsJSON[key] is the value of the last entry with that key, and the
\* empty string stands for undefined (both are falsy)
operationsJSON(prefix, key) ==
    LET entries == [i \in 1..Len(split(prefix, ",")) |->
                       split(split(prefix, ",")[i], "=")]
        hits == {i \in 1..Len(entries) : entries[i][1] = key}
    IN IF hits = {} THEN <<>>
       ELSE LET e == entries[CHOOSE i \in hits : \A j \in hits : j <= i]
            IN IF Len(e) >= 2 THEN e[2] ELSE <<>>

\* the output formats the codec's toFormat accepts among those in use
SharpFormats == {JPEG, WEBP, AVIF, PNG}

\* lines 86-87 and 100: the codec rejects a width that is no positive integer
\* and an output format it does not know
TransformRejects(prefix) ==
    \/ /\ Len(operationsJSON(prefix, WIDTH)) > 0
       /\ LET w == parseInt(operationsJSON(prefix, WIDTH)) IN w.nan \/ w.n <= 0
    \/ /\ Len(operationsJSON(prefix, FORMAT)) > 0
       /\ operationsJSON(prefix, FORMAT) \notin SharpFormats

\* lines 93-109: the content type declared for the result
ContentTypeAfter(prefix, sourceType) ==
    IF Len(operationsJSON(prefix, FORMAT)) > 0
    THEN CASE operationsJSON(prefix, FORMAT) = JPEG -> IMAGE_SLASH \o JPEG
           [] operationsJSON(prefix, FORMAT) = WEBP -> IMAGE_SLASH \o WEBP
           [] operationsJSON(prefix, FORMAT) = AVIF -> IMAGE_SLASH \o AVIF
           [] OTHER -> IMAGE_SLASH \o JPEG
    ELSE IF sourceType = IMAGE_SLASH \o SVG_XML THEN IMAGE_SLASH \o PNG
    ELSE sourceType

\* lines 16-42 and 100-105: the quality and effort toFormat is given for a
\* format; a format without an entry gets the quality of the fallback
formatOptions(format) ==
    CASE format = WEBP -> [quality |-> 80, effort |-> 6]
      [] format = AVIF -> [quality |-> 75, effort |-> 8]
      [] format = JPEG -> [quality |-> 80, effort |-> 0]
      [] OTHER -> [quality |-> 82, effort |-> 0]

\* lines 71-111: the buffer the codec returns: what it was encoded from and
\* how (quality 0: toFormat was not called), and its byte length
EncodedBuffer(path, prefix, len) ==
    [source |-> path,
     format |-> operationsJSON(prefix, FORMAT),
     quality |-> IF Len(operationsJSON(prefix, FORMAT)) > 0
                 THEN formatOptions(operationsJSON(prefix, FORMAT)).quality
                 ELSE 0,
     width |-> IF Len(operationsJSON(prefix, WIDTH)) > 0
               THEN parseInt(operationsJSON(prefix, WIDTH)) ELSE NaN,
     rotated |-> originStore[path].orientation,
     byteLength |-> len]

\* line 118: Buffer.byteLength(transformedImage) > MAX_IMAGE_SIZE
imageTooBig(image) == image.byteLength > MAX_IMAGE_SIZE

\* lines 167-170
sendError(statusCode, body) == [statusCode |-> statusCode, body |-> body]

\* line 127: Key: originalImagePath + '/' + operationsPrefix
VariantKey(path, prefix) == path \o SLASH \o prefix

\* lines 124-130: the PutObjectCommand's record
PutImageCommand(path, prefix, image, type) ==
    [Key |-> VariantKey(path, prefix), Body |-> image, ContentType |-> type,
     CacheControl |-> TRANSFORMED_IMAGE_CACHE_TTL]

\* the bucket after a PutObject: the record replaces any record of its Key
PutObject(bucket, record) ==
    {r \in bucket : r.Key # record.Key} \cup {record}

\* line 138, a plausible slip: the redirect names the canonical path itself
LocationOf_CanonicalPath(path, prefix) == SLASH \o path \o SLASH \o prefix

\* line 138, a plausible slip: the operations are appended as they are
LocationOf_NoReplace(path, prefix) == SLASH \o path \o <<"?">> \o prefix

\* line 138: '/' + originalImagePath + '?' + operationsPrefix.replace(/,/g, "&")
LocationOf(path, prefix) == SLASH \o path \o <<"?">> \o replaceCommas(prefix)

\* lines 135-142
Redirect(path, prefix, timing) ==
    [statusCode |-> 302,
     headers |-> [Location |-> LocationOf(path, prefix),
                  CacheControl |-> "private,no-store",
                  ServerTiming |-> timing]]

\* lines 153-163
Ok200(image, type, timing) ==
    [statusCode |-> 200,
     body |-> [base64 |-> image],
     isBase64Encoded |-> TRUE,
     headers |-> [ContentType |-> type,
                  CacheControl |-> TRANSFORMED_IMAGE_CACHE_TTL,
                  ServerTiming |-> timing]]

\* lines 150-164, a plausible slip: the size guard is missing
FinalResponse_NoGuard(image, type, timing) == Ok200(image, type, timing)

\* lines 150-164: the response when no redirect was sent
FinalResponse(image, type, timing) ==
    IF imageTooBig(image)
    THEN sendError(403, "Requested transformed image is too big")
    ELSE Ok200(image, type, timing)

\* lines 144-164, a plausible slip: the failed upload is reported to the caller
AfterPutFailure_Surfaced(image, type, timing) ==
    sendError(500, "Could not upload transformed image to S3")

\* lines 144-164: the catch block only logs, and the handler goes on to respond
AfterPutFailure(image, type, timing) == FinalResponse(image, type, timing)

\* line 45: event.Records && event.Records[0].eventSource === 'aws:s3'
IsUpload(ev) == ev.eventSource = "aws:s3"

\* line 49, a plausible slip: the method is not looked at
IsGet_AnyMethod(ev) == ev.hasRequestContext

\* line 49: requestContext, requestContext.http and the GET method
IsGet(ev) == ev.hasRequestContext /\ ev.method = "GET"

\* line 111, a plausible slip: the codec may encode the same input differently
CodecAllows_Any(path, prefix, len) == TRUE

\* line 111: toBuffer() is a function of the source and the operations: what
\* it returned for them once it returns again
CodecAllows(path, prefix, len) ==
    <<path, prefix>> \in DOMAIN codec => codec[<<path, prefix>>] = len

CodecAfter(path, prefix, len) ==
    IF <<path, prefix>> \in DOMAIN codec THEN codec
    ELSE codec @@ (<<path, prefix>> :> len)

\* an awaited call and how it ended
Call(op, ok) == [op |-> op, ok |-> ok]

(***************************************************************************)
(* The events and the stores offered to the Variant Orchestrator.          *)
(***************************************************************************)
A_JPG == <<"a", ".", "j", "p", "g">>
I_B == <<"i", "/", "b">>
MISSING == <<"x">>

N_AT_T == <<"n", "@", "t">>
TEXT_PLAIN == <<"t", "e", "x", "t", "/", "p", "l", "a", "i", "n">>

\* line 199: the size above which an upload counts as large
LARGE_IMAGE_BYTES == 1048576

\* an object stored without a content type
UNTYPED == <<"u">>

\* the origin bucket: an upright JPEG of exactly the large-file threshold, in
\* a folder an SVG one byte larger, a text file, and an object whose
\* ContentType is undefined
OriginObjects ==
    (A_JPG :> [hasContentType |-> TRUE, ContentType |-> IMAGE_SLASH \o JPEG,
               orientation |-> TRUE, ContentLength |-> LARGE_IMAGE_BYTES,
               width |-> 2400])
    @@ (I_B :> [hasContentType |-> TRUE, ContentType |-> IMAGE_SLASH \o SVG_XML,
                orientation |-> FALSE, ContentLength |-> LARGE_IMAGE_BYTES + 1,
                width |-> 640])
    @@ (N_AT_T :> [hasContentType |-> TRUE, ContentType |-> TEXT_PLAIN,
                   orientation |-> FALSE, ContentLength |-> 1, width |-> 0])
    @@ (UNTYPED :> [hasContentType |-> FALSE, ContentType |-> <<>>,
                    orientation |-> FALSE, ContentLength |-> 1, width |-> 0])

OperationStrings ==
    {FORMAT_EQ \o AVIF \o COMMA \o WIDTH_EQ \o toString(COMMON_WIDTHS[1]),
     FORMAT_EQ \o JPEG,
     WIDTH_EQ \o toString(COMMON_WIDTHS[1]),
     FORMAT_EQ \o PNG,
     FORMAT_EQ \o AUTO}

\* an event remembers the source and the operations its path was built from;
\* eventSource is that of Records[0], "" when the event has no Records
HttpEvents ==
    {[hasRequestContext |-> TRUE, method |-> "GET", eventSource |-> "",
      path |-> SLASH \o src \o SLASH \o ops, source |-> src, operations |-> ops] :
        src \in {A_JPG, I_B, MISSING}, ops \in OperationStrings}
    \cup {[hasRequestContext |-> c, method |-> "POST", eventSource |-> "",
           path |-> SLASH \o A_JPG \o SLASH \o FORMAT_EQ \o JPEG,
           source |-> A_JPG, operations |-> FORMAT_EQ \o JPEG] : c \in BOOLEAN}
    \cup {[hasRequestContext |-> FALSE, method |-> "", eventSource |-> "aws:sqs",
           path |-> <<>>, source |-> <<>>, operations |-> <<>>]}

NoEvent ==
    [hasRequestContext |-> FALSE, method |-> "", eventSource |-> "", path |-> <<>>,
     source |-> <<>>, operations |-> <<>>]
NoImage ==
    [source |-> <<>>, format |-> <<>>, quality |-> 0, width |-> NaN,
     rotated |-> FALSE, byteLength |-> 0]
NoResponse == [statusCode |-> 0]
NoS3Event == [eventSource |-> "", key |-> <<>>]
NoPrevious == [finished |-> FALSE, response |-> NoResponse, calls |-> <<>>, store |-> {}]

ByteLengths == (MAX_IMAGE_SIZE - 1)..(MAX_IMAGE_SIZE + 1)
Durations == 0..MaxDur

(***************************************************************************)
(* The Variant Orchestrator as a state machine: one action per stretch of  *)
(* the handler between two awaits, one per way the awaited call can end.   *)
(* A behaviour follows one Variant Key: the first request may be any       *)
(* event, and the same request may then arrive again.                      *)
(***************************************************************************)
NormalizerIdle ==
    /\ event = [uri |-> <<>>, querystring |-> EmptyQuery,
                headers |-> [defined |-> FALSE, hasAccept |-> FALSE, accept |-> NoValue]]
    /\ request = event
    /\ caught = FALSE
    /\ nzPc = "off"

OrchestratorIdle ==
    /\ lambdaEvent = NoEvent
    /\ orchPc = "idle"
    /\ invocations = 0
    /\ originStore = OriginObjects
    /\ transformedStore = {}
    /\ originalImagePath = <<>>
    /\ operationsPrefix = <<>>
    /\ contentType = <<>>
    /\ transformedImage = NoImage
    /\ timingLog = <<>>
    /\ putOutcome = "none"
    /\ response = NoResponse
    /\ calls = <<>>
    /\ codec = <<>>
    /\ previous = NoPrevious

FanOutIdle ==
    /\ s3Event = NoS3Event
    /\ fanPc = "off"
    /\ tasks = <<>>
    /\ fanResponse = NoResponse

OrchestratorInit ==
    /\ NormalizerIdle
    /\ OrchestratorIdle
    /\ FanOutIdle
    /\ bucketConfigured \in BOOLEAN

\* the runtime invokes the handler with an event
Invoke ==
    /\ orchPc = "idle"
    /\ invocations < MaxRequests
    /\ \E ev \in HttpEvents : lambdaEvent' = ev
    /\ orchPc' = "invoked"
    /\ invocations' = invocations + 1
    /\ UNCHANGED nzVars
    /\ UNCHANGED fanVars
    /\ UNCHANGED <<bucketConfigured, originStore, transformedStore,
                   originalImagePath, operationsPrefix, contentType,
                   transformedImage, timingLog, putOutcome, response, calls,
                   codec, previous>>

\* the same request arrives again: a new invocation with fresh locals
InvokeAgain ==
    /\ orchPc \in {"responded", "threw", "abandoned"}
    /\ invocations < MaxRequests
    /\ previous' = [finished |-> orchPc # "abandoned", response |-> response,
                    calls |-> calls, store |-> transformedStore]
    /\ orchPc' = "invoked"
    /\ invocations' = invocations + 1
    /\ originalImagePath' = <<>>
    /\ operationsPrefix' = <<>>
    /\ contentType' = <<>>
    /\ transformedImage' = NoImage
    /\ timingLog' = <<>>
    /\ putOutcome' = "none"
    /\ response' = NoResponse
    /\ calls' = <<>>
    /\ UNCHANGED nzVars
    /\ UNCHANGED fanVars
    /\ UNCHANGED <<lambdaEvent, bucketConfigured, originStore, transformedStore,
                   codec>>

\* line 49
RejectMethod ==
    /\ orchPc = "invoked"
    /\ ~IsUpload(lambdaEvent)
    /\ ~IsGet(lambdaEvent)
    /\ response' = sendError(400, "Only GET method is supported")
    /\ orchPc' = "responded"
    /\ UNCHANGED nzVars
    /\ UNCHANGED fanVars
    /\ UNCHANGED <<lambdaEvent, invocations, bucketConfigured, originStore,
                   transformedStore, originalImagePath, operationsPrefix,
                   contentType, transformedImage, timingLog, putOutcome, calls,
                   codec, previous>>

\* lines 51-67, a plausible slip: a record already stored under the key is
\* served without reading the source
GetOriginalImage_ServeStored ==
    /\ orchPc = "invoked"
    /\ ~IsUpload(lambdaEvent)
    /\ IsGet(lambdaEvent)
    /\ originalImagePath' = OriginalImagePathOf(lambdaEvent.path)
    /\ operationsPrefix' = OperationsPrefixOf(lambdaEvent.path)
    /\ IF \E r \in transformedStore : r.Key = VariantKey(originalImagePath', operationsPrefix')
       THEN /\ \E r \in transformedStore :
                  /\ r.Key = VariantKey(originalImagePath', operationsPrefix')
                  /\ response' = Ok200(r.Body, r.ContentType, <<>>)
            /\ orchPc' = "responded"
            /\ UNCHANGED <<contentType, calls>>
       ELSE /\ originalImagePath' \in DOMAIN originStore
            /\ contentType' = originStore[originalImagePath'].ContentType
            /\ calls' = Append(calls, Call("GetObject", TRUE))
            /\ orchPc' = "body"
            /\ UNCHANGED response
    /\ UNCHANGED nzVars
    /\ UNCHANGED fanVars
    /\ UNCHANGED <<lambdaEvent, invocations, bucketConfigured, originStore,
                   transformedStore, transformedImage, timingLog, putOutcome,
                   codec, previous>>

\* lines 66-71, a plausible slip: the promise of the body is handed to Sharp
\* without being awaited, so the decode starts while the read is in flight
GetOriginalImage_BodyNotAwaited ==
    /\ orchPc = "invoked"
    /\ ~IsUpload(lambdaEvent)
    /\ IsGet(lambdaEvent)
    /\ OriginalImagePathOf(lambdaEvent.path) \in DOMAIN originStore
    /\ originalImagePath' = OriginalImagePathOf(lambdaEvent.path)
    /\ operationsPrefix' = OperationsPrefixOf(lambdaEvent.path)
    /\ contentType' = originStore[OriginalImagePathOf(lambdaEvent.path)].ContentType
    /\ calls' = Append(calls, Call("GetObject", TRUE))
    /\ orchPc' = "metadata"
    /\ UNCHANGED nzVars
    /\ UNCHANGED fanVars
    /\ UNCHANGED <<lambdaEvent, invocations, bucketConfigured, originStore,
                   transformedStore, transformedImage, timingLog, putOutcome,
                   response, codec, previous>>

\* lines 51-67: the path is taken apart and GetObject answers
GetOriginalImage ==
    /\ orchPc = "invoked"
    /\ ~IsUpload(lambdaEvent)
    /\ IsGet(lambdaEvent)
    /\ OriginalImagePathOf(lambdaEvent.path) \in DOMAIN originStore
    /\ originalImagePath' = OriginalImagePathOf(lambdaEvent.path)
    /\ operationsPrefix' = OperationsPrefixOf(lambdaEvent.path)
    /\ contentType' = originStore[OriginalImagePathOf(lambdaEvent.path)].ContentType
    /\ calls' = Append(calls, Call("GetObject", TRUE))
    /\ orchPc' = "body"
    /\ UNCHANGED nzVars
    /\ UNCHANGED fanVars
    /\ UNCHANGED <<lambdaEvent, invocations, bucketConfigured, originStore,
                   transformedStore, transformedImage, timingLog, putOutcome,
                   response, codec, previous>>

\* lines 62-70, a plausible slip: a failed GetObject is sent a second time
GetOriginalImageFails_Retry ==
    /\ orchPc = "invoked"
    /\ ~IsUpload(lambdaEvent)
    /\ IsGet(lambdaEvent)
    /\ originalImagePath' = OriginalImagePathOf(lambdaEvent.path)
    /\ operationsPrefix' = OperationsPrefixOf(lambdaEvent.path)
    /\ calls' = Append(calls, Call("GetObject", FALSE))
    /\ IF calls = <<>>
       THEN orchPc' = "invoked" /\ UNCHANGED response
       ELSE /\ response' = sendError(500, "Error downloading original image")
            /\ orchPc' = "responded"
    /\ UNCHANGED nzVars
    /\ UNCHANGED fanVars
    /\ UNCHANGED <<lambdaEvent, invocations, bucketConfigured, originStore,
                   transformedStore, contentType, transformedImage, timingLog,
                   putOutcome, codec, previous>>

\* lines 62-70: GetObject fails (no such key, or the store is unavailable)
GetOriginalImageFails ==
    /\ orchPc = "invoked"
    /\ ~IsUpload(lambdaEvent)
    /\ IsGet(lambdaEvent)
    /\ originalImagePath' = OriginalImagePathOf(lambdaEvent.path)
    /\ operationsPrefix' = OperationsPrefixOf(lambdaEvent.path)
    /\ calls' = Append(calls, Call("GetObject", FALSE))
    /\ response' = sendError(500, "Error downloading original image")
    /\ orchPc' = "responded"
    /\ UNCHANGED nzVars
    /\ UNCHANGED fanVars
    /\ UNCHANGED <<lambdaEvent, invocations, bucketConfigured, originStore,
                   transformedStore, contentType, transformedImage, timingLog,
                   putOutcome, codec, previous>>

\* lines 66 and 71: await originalImageBody resolves
ReadBody ==
    /\ orchPc = "body"
    /\ calls' = Append(calls, Call("transformToByteArray", TRUE))
    /\ orchPc' = "metadata"
    /\ UNCHANGED nzVars
    /\ UNCHANGED fanVars
    /\ UNCHANGED <<lambdaEvent, invocations, bucketConfigured, originStore,
                   transformedStore, originalImagePath, operationsPrefix,
                   contentType, transformedImage, timingLog, putOutcome, response,
                   codec, previous>>

\* lines 66 and 71: the promise of transformToByteArray() is awaited outside
\* the try block, so its rejection leaves the handler as an exception
ReadBodyFails ==
    /\ orchPc = "body"
    /\ calls' = Append(calls, Call("transformToByteArray", FALSE))
    /\ orchPc' = "threw"
    /\ UNCHANGED nzVars
    /\ UNCHANGED fanVars
    /\ UNCHANGED <<lambdaEvent, invocations, bucketConfigured, originStore,
                   transformedStore, originalImagePath, operationsPrefix,
                   contentType, transformedImage, timingLog, putOutcome, response,
                   codec, previous>>

\* lines 73-78: metadata() resolves and the download is timed
Metadata ==
    /\ orchPc = "metadata"
    /\ calls' = Append(calls, Call("metadata", TRUE))
    /\ \E d \in Durations : timingLog' = <<[name |-> "img-download", dur |-> d]>>
    /\ orchPc' = "transform"
    /\ UNCHANGED nzVars
    /\ UNCHANGED fanVars
    /\ UNCHANGED <<lambdaEvent, invocations, bucketConfigured, originStore,
                   transformedStore, originalImagePath, operationsPrefix,
                   contentType, transformedImage, putOutcome, response, codec,
                   previous>>

\* line 73: metadata() is awaited outside the try block
MetadataFails ==
    /\ orchPc = "metadata"
    /\ calls' = Append(calls, Call("metadata", FALSE))
    /\ orchPc' = "threw"
    /\ UNCHANGED nzVars
    /\ UNCHANGED fanVars
    /\ UNCHANGED <<lambdaEvent, invocations, bucketConfigured, originStore,
                   transformedStore, originalImagePath, operationsPrefix,
                   contentType, transformedImage, timingLog, putOutcome, response,
                   codec, previous>>

\* lines 79-115: resize, rotate, toFormat, toBuffer
Transform ==
    /\ orchPc = "transform"
    /\ ~TransformRejects(operationsPrefix)
    /\ contentType' = ContentTypeAfter(operationsPrefix, contentType)
    /\ \E len \in ByteLengths :
          /\ CodecAllows(originalImagePath, operationsPrefix, len)
          /\ transformedImage' = EncodedBuffer(originalImagePath, operationsPrefix, len)
          /\ codec' = CodecAfter(originalImagePath, operationsPrefix, len)
    /\ calls' = Append(calls, Call("toBuffer", TRUE))
    /\ \E d \in Durations :
          timingLog' = Append(timingLog, [name |-> "img-transform", dur |-> d])
    /\ orchPc' = "transformed"
    /\ UNCHANGED nzVars
    /\ UNCHANGED fanVars
    /\ UNCHANGED <<lambdaEvent, invocations, bucketConfigured, originStore,
                   transformedStore, originalImagePath, operationsPrefix,
                   putOutcome, response, previous>>

\* lines 112-114: the codec throws inside the try block
TransformFails ==
    /\ orchPc = "transform"
    /\ calls' = Append(calls, Call("toBuffer", FALSE))
    /\ response' = sendError(500, "error transforming image")
    /\ orchPc' = "responded"
    /\ UNCHANGED nzVars
    /\ UNCHANGED fanVars
    /\ UNCHANGED <<lambdaEvent, invocations, bucketConfigured, originStore,
                   transformedStore, originalImagePath, operationsPrefix,
                   contentType, transformedImage, timingLog, putOutcome, codec,
                   previous>>

\* line 126, a plausible slip: the PutObject names the bucket of the originals
PutObjectOk_IntoOrigin ==
    /\ orchPc = "transformed"
    /\ bucketConfigured
    /\ originStore' =
         (VariantKey(originalImagePath, operationsPrefix)
            :> [hasContentType |-> TRUE, ContentType |-> contentType,
                orientation |-> FALSE,
                ContentLength |-> transformedImage.byteLength, width |-> 0])
         @@ originStore
    /\ UNCHANGED transformedStore
    /\ putOutcome' = "ok"
    /\ calls' = Append(calls, Call("PutObject", TRUE))
    /\ \E d \in Durations :
          timingLog' = Append(timingLog, [name |-> "img-upload", dur |-> d])
    /\ response' = IF imageTooBig(transformedImage)
                   THEN Redirect(originalImagePath, operationsPrefix, timingLog')
                   ELSE FinalResponse(transformedImage, contentType, timingLog')
    /\ orchPc' = "responded"
    /\ UNCHANGED nzVars
    /\ UNCHANGED fanVars
    /\ UNCHANGED <<lambdaEvent, invocations, bucketConfigured,
                   originalImagePath, operationsPrefix, contentType,
                   transformedImage, codec, previous>>

\* lines 121-143 and 150-164: the PutObject succeeds
PutObjectOk ==
    /\ orchPc = "transformed"
    /\ bucketConfigured
    /\ transformedStore' =
         PutObject(transformedStore,
                   PutImageCommand(originalImagePath, operationsPrefix,
                                   transformedImage, contentType))
    /\ putOutcome' = "ok"
    /\ calls' = Append(calls, Call("PutObject", TRUE))
    /\ \E d \in Durations :
          timingLog' = Append(timingLog, [name |-> "img-upload", dur |-> d])
    /\ response' = IF imageTooBig(transformedImage)
                   THEN Redirect(originalImagePath, operationsPrefix, timingLog')
                   ELSE FinalResponse(transformedImage, contentType, timingLog')
    /\ orchPc' = "responded"
    /\ UNCHANGED nzVars
    /\ UNCHANGED fanVars
    /\ UNCHANGED <<lambdaEvent, invocations, bucketConfigured, originStore,
                   originalImagePath, operationsPrefix, contentType,
                   transformedImage, codec, previous>>

\* lines 144-146 and 150-164: the PutObject fails, which is only logged
PutObjectFails ==
    /\ orchPc = "transformed"
    /\ bucketConfigured
    /\ putOutcome' = "failed"
    /\ calls' = Append(calls, Call("PutObject", FALSE))
    /\ response' = AfterPutFailure(transformedImage, contentType, timingLog)
    /\ orchPc' = "responded"
    /\ UNCHANGED nzVars
    /\ UNCHANGED fanVars
    /\ UNCHANGED <<lambdaEvent, invocations, bucketConfigured, originStore,
                   transformedStore, originalImagePath, operationsPrefix,
                   contentType, transformedImage, timingLog, codec, previous>>

\* lines 121 and 150-164: no transformed-variant bucket is configured
RespondWithoutStore ==
    /\ orchPc = "transformed"
    /\ ~bucketConfigured
    /\ response' = FinalResponse(transformedImage, contentType, timingLog)
    /\ orchPc' = "responded"
    /\ UNCHANGED nzVars
    /\ UNCHANGED fanVars
    /\ UNCHANGED <<lambdaEvent, invocations, bucketConfigured, originStore,
                   transformedStore, originalImagePath, operationsPrefix,
                   contentType, transformedImage, timingLog, putOutcome, calls,
                   codec, previous>>

\* line 131, a plausible slip: the PutObject is sent before toBuffer() has
\* resolved
PutInFlight_BeforeEncode(pc) ==
    bucketConfigured /\ pc \in {"transform", "transformed"}

\* line 131: the await the invocation is suspended on is that of the PutObject
PutInFlight(pc) == bucketConfigured /\ pc = "transformed"

\* lines 64, 71, 73, 111 and 131: the runtime's timeout abandons the
\* invocation at the await it is suspended on; a PutObject in flight may or
\* may not have reached the bucket
Abandon ==
    /\ orchPc \in {"invoked", "body", "metadata", "transform", "transformed"}
    /\ orchPc = "invoked" => ~IsUpload(lambdaEvent) /\ IsGet(lambdaEvent)
    /\ orchPc = "transformed" => bucketConfigured
    /\ \/ UNCHANGED transformedStore
       \/ /\ PutInFlight(orchPc)
          /\ transformedStore' =
               PutObject(transformedStore,
                         PutImageCommand(originalImagePath, operationsPrefix,
                                         transformedImage, contentType))
    /\ orchPc' = "abandoned"
    /\ UNCHANGED nzVars
    /\ UNCHANGED fanVars
    /\ UNCHANGED <<lambdaEvent, invocations, bucketConfigured, originStore,
                   originalImagePath, operationsPrefix, contentType,
                   transformedImage, timingLog, putOutcome, response, calls,
                   codec, previous>>

OrchestratorNext ==
    \/ Invoke
    \/ InvokeAgain
    \/ RejectMethod
    \/ GetOriginalImage
    \/ GetOriginalImageFails
    \/ ReadBody
    \/ ReadBodyFails
    \/ Metadata
    \/ MetadataFails
    \/ Transform
    \/ TransformFails
    \/ PutObjectOk
    \/ PutObjectFails
    \/ RespondWithoutStore
    \/ Abandon

(***************************************************************************)
(* Warm-Cache Fan-Out: handleS3Upload(event) and processAndUploadVariant   *)
(* of image-processing/index.mjs.                                          *)
(***************************************************************************)
\* line 14: const COMMON_WIDTHS of image-processing/index.mjs
FANOUT_COMMON_WIDTHS == <<640, 750, 828, 1080, 1200, 1920>>

\* the widths the state machine dispatches cells for
FanOutWidths == SubSeq(FANOUT_COMMON_WIDTHS, 1, MaxWidths)

\* line 179: decodeURIComponent, for the escapes the notifications use
PercentEscapes ==
    (<<"4", "0">> :> "@") @@ (<<"2", "F">> :> "/") @@ (<<"2", "0">> :> " ")

RECURSIVE decodeURIComponent(_)
decodeURIComponent(s) ==
    IF Len(s) = 0 THEN <<>>
    ELSE IF s[1] = "%" /\ Len(s) >= 3 /\ SubSeq(s, 2, 3) \in DOMAIN PercentEscapes
    THEN <<PercentEscapes[SubSeq(s, 2, 3)]>> \o decodeURIComponent(SubSeq(s, 4, Len(s)))
    ELSE <<s[1]>> \o decodeURIComponent(Tail(s))

\* line 191: contentType.startsWith('image/')
startsWith(s, prefix) ==
    Len(s) >= Len(prefix) /\ SubSeq(s, 1, Len(prefix)) = prefix

\* line 199, a plausible slip: the threshold itself counts as large
isLargeImage_AtLeast(object) == object.ContentLength >= LARGE_IMAGE_BYTES

\* line 199
isLargeImage(object) == object.ContentLength > LARGE_IMAGE_BYTES

\* a cell of the matrix; width 0 stands for the default width = null
Cell(format, width) == [format |-> format, width |-> width]

\* Array.prototype.flatMap over the widths, lines 216-219
RECURSIVE flatMapWidths(_)
flatMapWidths(widths) ==
    IF Len(widths) = 0 THEN <<>>
    ELSE <<Cell(WEBP, widths[1]), Cell(AVIF, widths[1])>> \o flatMapWidths(Tail(widths))

\* lines 202-221, a plausible slip: the cells without a width are left out
optimizationTasks_WidthsOnly(large, widths) ==
    IF large
    THEN [i \in 1..Len(widths) |-> Cell(WEBP, widths[i])]
    ELSE flatMapWidths(widths)

\* lines 202-221, a plausible slip: JPEG cells are pushed too, as an older
\* variant of the function did
optimizationTasks_WithJpeg(large, widths) ==
    IF large
    THEN <<Cell(WEBP, 0)>> \o [i \in 1..Len(widths) |-> Cell(WEBP, widths[i])]
    ELSE <<Cell(WEBP, 0), Cell(AVIF, 0), Cell(JPEG, 0)>> \o flatMapWidths(widths)
         \o [i \in 1..Len(widths) |-> Cell(JPEG, widths[i])]

\* lines 202-221: the cells in the order they are pushed
optimizationTasks(large, widths) ==
    IF large
    THEN <<Cell(WEBP, 0)>> \o [i \in 1..Len(widths) |-> Cell(WEBP, widths[i])]
    ELSE <<Cell(WEBP, 0), Cell(AVIF, 0)>> \o flatMapWidths(widths)

\* lines 243-268: the quality optimizeByDimensions settles on
optimizeByDimensions(object, format, width) ==
    LET fileSize == object.ContentLength
        quality == IF fileSize > LARGE_IMAGE_BYTES THEN 65
                   ELSE IF width # 0 /\ width < 800 THEN 75
                   ELSE IF object.width > 2000 THEN 70
                   ELSE 80
    IN IF format = WEBP /\ fileSize > LARGE_IMAGE_BYTES THEN 65 ELSE quality

\* lines 316-318, a plausible slip: the operations in the other order
optimizedKey_WidthFirst(originalKey, format, width) ==
    IF width # 0
    THEN originalKey \o SLASH \o WIDTH_EQ \o toString(width) \o COMMA \o FORMAT_EQ \o format
    ELSE originalKey \o SLASH \o FORMAT_EQ \o format

\* lines 316-318
optimizedKey(originalKey, format, width) ==
    IF width # 0
    THEN originalKey \o SLASH \o FORMAT_EQ \o format \o COMMA_WIDTH_EQ \o toString(width)
    ELSE originalKey \o SLASH \o FORMAT_EQ \o format

\* lines 273-308: the buffer a cell encodes
VariantBuffer(originalKey, format, width) ==
    [source |-> originalKey, format |-> format, width |-> width,
     rotated |-> originStore[originalKey].orientation,
     quality |-> optimizeByDimensions(originStore[originalKey], format, width)]

\* lines 320-326
putCommand(originalKey, format, width) ==
    [Key |-> optimizedKey(originalKey, format, width),
     Body |-> VariantBuffer(originalKey, format, width),
     ContentType |-> IMAGE_SLASH \o format,
     CacheControl |-> TRANSFORMED_IMAGE_CACHE_TTL]

\* the error messages a cell may catch
UNSUPPORTED_FORMAT == <<"b", "a", "d", " ", "f", "o", "r", "m", "a", "t">>
OUT_OF_MEMORY == <<"n", "o", " ", "m", "e", "m", "o", "r", "y">>
ALLOCATION_FAILED == <<"a", "l", "l", "o", "c", "a", "t", "i", "o", "n">>
ErrorMessages == {UNSUPPORTED_FORMAT, OUT_OF_MEMORY, ALLOCATION_FAILED}

\* lines 333-335, a plausible slip: only 'memory' is looked for
Rethrown_MemoryOnly(message) ==
    includes(message, <<"m", "e", "m", "o", "r", "y">>)

\* lines 333-335: error.message.includes('memory') || ...includes('allocation')
Rethrown(message) ==
    \/ includes(message, <<"m", "e", "m", "o", "r", "y">>)
    \/ includes(message, <<"a", "l", "l", "o", "c", "a", "t", "i", "o", "n">>)

\* where the promise of a cell can be: at one of its awaits, or settled
PendingAt == {"metadata", "toBuffer", "put"}
FulfilledAs == {"stored", "skipped", "logged"}
SettledAs == FulfilledAs \cup {"rejected"}

\* line 224, a plausible slip: Promise.all, which settles with the first
\* rejection
allSettled_FailFast(ts) ==
    \/ \A i \in DOMAIN ts : ts[i].at \in FulfilledAs
    \/ \E i \in DOMAIN ts : ts[i].at = "rejected"

\* line 224: Promise.allSettled(optimizationTasks) resolves
allSettled(ts) == \A i \in DOMAIN ts : ts[i].at \in SettledAs

\* the notifications: the key arrives URL-encoded
S3Events ==
    {[eventSource |-> "aws:s3", key |-> k] :
        k \in {A_JPG, I_B, <<"n", "%", "4", "0", "t">>, UNTYPED, MISSING}}

\* lines 45-46 and 177-186: the handler hands the notification to
\* handleS3Upload, which sends the GetObject
Upload ==
    /\ fanPc = "idle"
    /\ \E ev \in S3Events : IsUpload(ev) /\ s3Event' = ev
    /\ fanPc' = "get"
    /\ UNCHANGED <<tasks, fanResponse>>
    /\ UNCHANGED nzVars
    /\ UNCHANGED orchVars

\* line 186: the GetObject answers
FanGetObject ==
    /\ fanPc = "get"
    /\ decodeURIComponent(s3Event.key) \in DOMAIN originStore
    /\ fanPc' = "body"
    /\ UNCHANGED <<s3Event, tasks, fanResponse>>
    /\ UNCHANGED nzVars
    /\ UNCHANGED orchVars

\* lines 186 and 237-239: the GetObject fails
FanGetObjectFails ==
    /\ fanPc = "get"
    /\ fanResponse' = sendError(500, "Error processing new image upload")
    /\ fanPc' = "returned"
    /\ UNCHANGED <<s3Event, tasks>>
    /\ UNCHANGED nzVars
    /\ UNCHANGED orchVars

\* lines 187 and 237-239: reading the body fails
FanReadBodyFails ==
    /\ fanPc = "body"
    /\ fanResponse' = sendError(500, "Error processing new image upload")
    /\ fanPc' = "returned"
    /\ UNCHANGED <<s3Event, tasks>>
    /\ UNCHANGED nzVars
    /\ UNCHANGED orchVars

\* line 191, a plausible slip: contentType?.startsWith, so that an object
\* without a content type is skipped like a non-image
ContentTypeMissing_Skipped ==
    /\ fanPc = "body"
    /\ ~originStore[decodeURIComponent(s3Event.key)].hasContentType
    /\ fanResponse' = [statusCode |-> 200, body |-> "Skipped non-image file"]
    /\ fanPc' = "returned"
    /\ UNCHANGED <<s3Event, tasks>>
    /\ UNCHANGED nzVars
    /\ UNCHANGED orchVars

\* lines 187-191 and 237-239: the body is read and the object has no content
\* type, so contentType.startsWith throws a TypeError, which is caught
ContentTypeMissing ==
    /\ fanPc = "body"
    /\ ~originStore[decodeURIComponent(s3Event.key)].hasContentType
    /\ fanResponse' = sendError(500, "Error processing new image upload")
    /\ fanPc' = "returned"
    /\ UNCHANGED <<s3Event, tasks>>
    /\ UNCHANGED nzVars
    /\ UNCHANGED orchVars

\* lines 187-196: the body is read and the object is no image
SkipNonImage ==
    /\ fanPc = "body"
    /\ originStore[decodeURIComponent(s3Event.key)].hasContentType
    /\ ~startsWith(originStore[decodeURIComponent(s3Event.key)].ContentType, IMAGE_SLASH)
    /\ fanResponse' = [statusCode |-> 200, body |-> "Skipped non-image file"]
    /\ fanPc' = "returned"
    /\ UNCHANGED <<s3Event, tasks>>
    /\ UNCHANGED nzVars
    /\ UNCHANGED orchVars

\* lines 187-224 and 270-280: the body is read and every cell is started; each
\* runs up to its first await
Dispatch ==
    /\ fanPc = "body"
    /\ originStore[decodeURIComponent(s3Event.key)].hasContentType
    /\ startsWith(originStore[decodeURIComponent(s3Event.key)].ContentType, IMAGE_SLASH)
    /\ tasks' = LET cells == optimizationTasks(
                        isLargeImage(originStore[decodeURIComponent(s3Event.key)]),
                        FanOutWidths)
                IN [i \in 1..Len(cells) |->
                       [format |-> cells[i].format, width |-> cells[i].width,
                        at |-> "metadata", message |-> <<>>]]
    /\ fanPc' = "settling"
    /\ UNCHANGED <<s3Event, fanResponse>>
    /\ UNCHANGED nzVars
    /\ UNCHANGED orchVars

\* lines 280-308 and 244-267: metadata() of cell i resolves; resize, rotate
\* and optimizeByDimensions (whose own metadata() resolves) follow, and
\* toBuffer() is awaited
CellMetadata(i) ==
    /\ fanPc = "settling"
    /\ tasks[i].at = "metadata"
    /\ tasks' = [tasks EXCEPT ![i].at = "toBuffer"]
    /\ UNCHANGED <<s3Event, fanPc, fanResponse>>
    /\ UNCHANGED nzVars
    /\ UNCHANGED orchVars

\* lines 281-284: metadata() resolves to nothing and the cell is skipped
CellInvalidMetadata(i) ==
    /\ fanPc = "settling"
    /\ tasks[i].at = "metadata"
    /\ tasks' = [tasks EXCEPT ![i].at = "skipped"]
    /\ UNCHANGED <<s3Event, fanPc, fanResponse>>
    /\ UNCHANGED nzVars
    /\ UNCHANGED orchVars

\* lines 308-328: toBuffer() resolves and the PutObject is sent
CellToBuffer(i) ==
    /\ fanPc = "settling"
    /\ tasks[i].at = "toBuffer"
    /\ tasks' = [tasks EXCEPT ![i].at = "put"]
    /\ UNCHANGED <<s3Event, fanPc, fanResponse>>
    /\ UNCHANGED nzVars
    /\ UNCHANGED orchVars

\* lines 310-314: the buffer is empty and the cell is skipped
CellEmptyBuffer(i) ==
    /\ fanPc = "settling"
    /\ tasks[i].at = "toBuffer"
    /\ tasks' = [tasks EXCEPT ![i].at = "skipped"]
    /\ UNCHANGED <<s3Event, fanPc, fanResponse>>
    /\ UNCHANGED nzVars
    /\ UNCHANGED orchVars

\* line 328: the PutObject succeeds and the cell's promise is fulfilled
CellPutObject(i) ==
    /\ fanPc = "settling"
    /\ bucketConfigured
    /\ tasks[i].at = "put"
    /\ transformedStore' =
         PutObject(transformedStore,
                   putCommand(decodeURIComponent(s3Event.key),
                              tasks[i].format, tasks[i].width))
    /\ tasks' = [tasks EXCEPT ![i].at = "stored"]
    /\ UNCHANGED <<s3Event, fanPc, fanResponse>>
    /\ UNCHANGED nzVars
    /\ UNCHANGED handlerVars

\* lines 329-336: an awaited call of cell i fails; the catch block logs the
\* error and throws it again only when its message speaks of memory
CellFails(i) ==
    /\ fanPc = "settling"
    /\ tasks[i].at \in PendingAt
    /\ \E message \in ErrorMessages :
          tasks' = [tasks EXCEPT ![i].at =
                       IF Rethrown(message) THEN "rejected" ELSE "logged",
                                 ![i].message = message]
    /\ UNCHANGED <<s3Event, fanPc, fanResponse>>
    /\ UNCHANGED nzVars
    /\ UNCHANGED orchVars

\* lines 224-236: the join resolves and the handler returns
FanReturn ==
    /\ fanPc = "settling"
    /\ allSettled(tasks)
    /\ fanResponse' = [statusCode |-> 200, body |-> "Image optimization completed"]
    /\ fanPc' = "returned"
    /\ UNCHANGED <<s3Event, tasks>>
    /\ UNCHANGED nzVars
    /\ UNCHANGED orchVars

\* processAndUploadVariant sends its PutObject whether or not a bucket is
\* configured, and without one the call fails as under CellFails
FanOutInit ==
    /\ NormalizerIdle
    /\ OrchestratorIdle
    /\ s3Event = NoS3Event
    /\ fanPc = "idle"
    /\ tasks = <<>>
    /\ fanResponse = NoResponse
    /\ bucketConfigured = TRUE

FanOutNext ==
    \/ Upload
    \/ FanGetObject
    \/ FanGetObjectFails
    \/ FanReadBodyFails
    \/ ContentTypeMissing
    \/ SkipNonImage
    \/ Dispatch
    \/ \E i \in DOMAIN tasks : CellMetadata(i)
    \/ \E i \in DOMAIN tasks : CellInvalidMetadata(i)
    \/ \E i \in DOMAIN tasks : CellToBuffer(i)
    \/ \E i \in DOMAIN tasks : CellEmptyBuffer(i)
    \/ \E i \in DOMAIN tasks : CellPutObject(i)
    \/ \E i \in DOMAIN tasks : CellFails(i)
    \/ FanReturn

SpecFanOut == FanOutInit /\ [][FanOutNext]_vars

(***************************************************************************)
(* The Key Normalizer as a state machine: one call of handler per request. *)
(***************************************************************************)
NormalizerInit ==
    /\ event \in Requests
    /\ request = event
    /\ caught = FALSE
    /\ nzPc = "ready"
    /\ OrchestratorIdle
    /\ FanOutIdle
    /\ bucketConfigured = FALSE

Normalize ==
    /\ nzPc = "ready"
    /\ request' = handler(event).request
    /\ caught' = handler(event).caught
    /\ nzPc' = IF handler(event).threw THEN "threw" ELSE "returned"
    /\ UNCHANGED event
    /\ UNCHANGED orchVars
    /\ UNCHANGED fanVars

NormalizerNext == Normalize

SpecNormalizer == NormalizerInit /\ [][NormalizerNext]_vars

SpecOrchestrator == OrchestratorInit /\ [][OrchestratorNext]_vars

(***************************************************************************)
(* Vocabulary of the properties of the Key Normalizer.                     *)
(***************************************************************************)
Returned == nzPc = "returned"

\* the header map lets the format be negotiated without an internal error
UsableHeaders(headers) ==
    headers.defined /\ (headers.hasAccept => headers.accept.hasValue)

\* sub occurs in s: s = before \o sub \o after
Contains(s, sub) ==
    \E i \in 0..Len(s) : \E j \in i..Len(s) : SubSeq(s, i + 1, j) = sub

\* the format the Accept header asks for
ExpectedFormat(headers) ==
    CASE headers.hasAccept /\ Contains(headers.accept.value, AVIF) -> AVIF
      [] headers.hasAccept /\ ~Contains(headers.accept.value, AVIF)
           /\ Contains(headers.accept.value, WEBP) -> WEBP
      [] OTHER -> JPEG

\* the width parameter of a request: the entry under the key 'width'
HasWidthParam(req) == req.querystring.defined /\ HasKey(req.querystring, "width")
WidthValue(req) == Lookup(req.querystring, "width").value

\* '<path>/format=<negotiated>' and '<path>/format=<negotiated>,width=<w>'
FormatOnlyKey(req) == req.uri \o SLASH_FORMAT_EQ \o ExpectedFormat(req.headers)
FormatWidthKey(req, w) == FormatOnlyKey(req) \o COMMA_WIDTH_EQ \o w

\* s is entirely a decimal integer: digits only, after optional leading white
\* space and an optional sign
IsDecimalInteger(s) ==
    LET t == StripLeadingWhiteSpace(s)
        d == IF Len(t) > 0 /\ Head(t) \in {"-", "+"} THEN Tail(t) ELSE t
    IN Len(d) > 0 /\ \A i \in 1..Len(d) : d[i] \in Range(DecDigits)

\* s is a positive integer in plain decimal, without sign or leading zero
IsPlainPositiveDecimal(s) ==
    /\ Len(s) > 0
    /\ \A i \in 1..Len(s) : s[i] \in Range(DecDigits)
    /\ s[1] # "0"

\* String.prototype.toLowerCase on the parameter names in use
LowerCaseName ==
    [nm \in {"width", "Width", "WIDTH", "height", "Height", "HEIGHT"} |->
        IF nm \in {"width", "Width", "WIDTH"} THEN "width" ELSE "height"]

NamesDistinct(ps) ==
    \A i, j \in 1..Len(ps) : ps[i].name = ps[j].name => i = j
FoldedNamesDistinct(ps) ==
    \A i, j \in 1..Len(ps) :
        LowerCaseName[ps[i].name] = LowerCaseName[ps[j].name] => i = j

\* the parameter lists that carry the parameters of ps in some order, each
\* name in some letter-casing
Reorderings(ps) ==
    {[i \in 1..Len(ps) |-> ps[f[i]]] :
        f \in {g \in [1..Len(ps) -> 1..Len(ps)] :
                 \A i, j \in 1..Len(ps) : g[i] = g[j] => i = j}}
RECURSIVE Recasings(_)
Recasings(ps) ==
    IF Len(ps) = 0 THEN {<<>>}
    ELSE {<<[name |-> nm, value |-> Head(ps).value]>> \o rest :
            nm \in {n \in DOMAIN LowerCaseName :
                      LowerCaseName[n] = LowerCaseName[Head(ps).name]},
            rest \in Recasings(Tail(ps))}
SameParameters(ps) == UNION {Recasings(qs) : qs \in Reorderings(ps)}

\* the key the handler produces for the request of this run with its
\* parameter list replaced by ps
KeyWithParams(ps) ==
    handler([event EXCEPT !.querystring = [defined |-> TRUE, params |-> ps]]).request.uri

(***************************************************************************)
(* C1. Two requests with the same path and the same Accept header whose    *)
(* query strings carry the same parameters, in any order and with any      *)
(* letter-casing of the parameter names, are rewritten to the same URI.    *)
(***************************************************************************)
C1_SameKeyForAnyOrderAndCasing ==
    (/\ Returned
     /\ UsableHeaders(event.headers)
     /\ event.querystring.defined
     /\ FoldedNamesDistinct(event.querystring.params))
    => \A ps \in SameParameters(event.querystring.params) :
          KeyWithParams(ps) = request.uri

\* what remains of C1 in the code: the order of the parameters is irrelevant
C1_SameKeyForAnyOrder ==
    (Returned /\ UsableHeaders(event.headers) /\ event.querystring.defined)
    => \A ps \in Reorderings(event.querystring.params) :
          KeyWithParams(ps) = request.uri

(***************************************************************************)
(* C2 as claimed. A width value that is an integer <= 0, or that is not    *)
(* entirely a decimal integer (the empty value included), yields exactly   *)
(* '<path>/format=<negotiated>'.                                           *)
(***************************************************************************)
C2_NonDecimalWidthOmitted ==
    (/\ Returned
     /\ UsableHeaders(event.headers)
     /\ HasWidthParam(event)
     /\ \/ ~IsDecimalInteger(WidthValue(event))
        \/ parseInt(WidthValue(event)).n <= 0)
    => request.uri = FormatOnlyKey(event)

(***************************************************************************)
(* C2 as amended. A width value in which parseInt finds no integer (no     *)
(* digits after optional white space and sign), or finds an integer <= 0,  *)
(* yields exactly '<path>/format=<negotiated>': no width operation.        *)
(***************************************************************************)
C2_UnparsableOrNonPositiveWidthOmitted ==
    (/\ Returned
     /\ UsableHeaders(event.headers)
     /\ HasWidthParam(event)
     /\ \/ parseInt(WidthValue(event)).nan
        \/ parseInt(WidthValue(event)).n <= 0)
    => /\ request.uri = FormatOnlyKey(event)
       /\ ~Contains(request.uri, WIDTH_EQ)

C2_Witness ==
    /\ Returned
    /\ UsableHeaders(event.headers)
    /\ HasWidthParam(event)
    /\ ~parseInt(WidthValue(event)).nan
    /\ parseInt(WidthValue(event)).n < 0
    /\ request.uri = FormatOnlyKey(event)

(***************************************************************************)
(* C3. A width that parses to more than 4000 is written as 'width=4000',   *)
(* and no rewritten URI carries a width greater than 4000.                 *)
(***************************************************************************)
C3_WidthClampedToMaximum ==
    (Returned /\ UsableHeaders(event.headers))
    => /\ (/\ HasWidthParam(event)
           /\ ~parseInt(WidthValue(event)).nan
           /\ parseInt(WidthValue(event)).n > 4000)
          => request.uri = FormatWidthKey(event, <<"4", "0", "0", "0">>)
       /\ \A i \in 1..Len(request.uri) :
             (/\ i + Len(WIDTH_EQ) - 1 <= Len(request.uri)
              /\ SubSeq(request.uri, i, i + Len(WIDTH_EQ) - 1) = WIDTH_EQ)
             => LET w == SubSeq(request.uri, i + Len(WIDTH_EQ), Len(request.uri))
                IN IsPlainPositiveDecimal(w) /\ parseInt(w).n <= 4000

C3_Witness ==
    /\ Returned
    /\ HasWidthParam(event)
    /\ WidthValue(event) = <<"4", "0", "0", "1">>
    /\ Contains(request.uri, <<"w", "i", "d", "t", "h", "=", "4", "0", "0", "0">>)

(***************************************************************************)
(* C4. The format is avif when the Accept value contains 'avif' (even      *)
(* beside 'webp'), else webp when it contains 'webp', else jpeg, also when *)
(* there is no Accept header; no query parameter changes the choice.       *)
(***************************************************************************)
C4_FormatNegotiation ==
    (Returned /\ UsableHeaders(event.headers))
    => LET key == FormatOnlyKey(event)
       IN /\ SubSeq(request.uri, 1, Len(key)) = key
          /\ Len(request.uri) > Len(key) => request.uri[Len(key) + 1] = ","

C4_Witness ==
    /\ Returned
    /\ event.headers.hasAccept
    /\ event.headers.accept.hasValue
    /\ event.headers.accept.value = WEBP \o COMMA \o AVIF
    /\ Len(event.querystring.params) > 0
    /\ Contains(request.uri, FORMAT_EQ \o AVIF)

(***************************************************************************)
(* C5. A request with no query parameters at all is rewritten to exactly   *)
(* '<path>/format=<negotiated>', with no width operation and an empty      *)
(* query string.                                                           *)
(***************************************************************************)
C5_NoQueryGivesFormatOnly ==
    (/\ Returned
     /\ UsableHeaders(event.headers)
     /\ (~event.querystring.defined \/ Len(event.querystring.params) = 0))
    => /\ request.uri = FormatOnlyKey(event)
       /\ ~Contains(request.uri, WIDTH_EQ)
       /\ request.querystring.defined
       /\ Len(request.querystring.params) = 0

C5_Witness ==
    /\ Returned
    /\ event.uri = <<"/", "a", ".", "j", "p", "g">>
    /\ Len(event.querystring.params) = 0
    /\ event.headers.hasAccept
    /\ event.headers.accept.hasValue
    /\ event.headers.accept.value = <<"i", "/", "a", "v", "i", "f">>
    /\ request.uri = <<"/", "a", ".", "j", "p", "g", "/",
                       "f", "o", "r", "m", "a", "t", "=", "a", "v", "i", "f">>

\* the parameter lists that agree with ps on the width parameter and carry
\* any other parameters around it
RECURSIVE WithoutWidth(_)
WithoutWidth(ps) ==
    IF Len(ps) = 0 THEN <<>>
    ELSE IF Head(ps).name = "width" THEN WithoutWidth(Tail(ps))
    ELSE <<Head(ps)>> \o WithoutWidth(Tail(ps))
InsertAt(ps, k, e) == SubSeq(ps, 1, k) \o <<e>> \o SubSeq(ps, k + 1, Len(ps))
OtherParamSeqs == ParamSeqs(ParamNames \ {"width"})
SameWidthOtherParams(q) ==
    IF q.defined /\ HasKey(q, "width")
    THEN UNION {{InsertAt(os, k, Lookup(q, "width")) : k \in 0..Len(os)} :
                  os \in OtherParamSeqs}
    ELSE OtherParamSeqs

(***************************************************************************)
(* C6. The rewritten URI is a function of the path, the negotiated format  *)
(* and the value of the width parameter only: requests that agree on these *)
(* and differ in other query parameters, or in the Accept header behind    *)
(* the same negotiated format, get the same URI; and the query string of   *)
(* the returned request is empty whenever no internal error occurred.      *)
(***************************************************************************)
C6_KeyDependsOnPathFormatWidthOnly ==
    (Returned /\ UsableHeaders(event.headers))
    => /\ request.querystring = [defined |-> TRUE, params |-> <<>>]
       /\ \A ps \in SameWidthOtherParams(event.querystring) :
             KeyWithParams(ps) = request.uri
       /\ ~HasWidthParam(event) =>
             handler([event EXCEPT !.querystring =
                        [defined |-> FALSE, params |-> <<>>]]).request.uri = request.uri
       /\ \A h \in HeaderCases :
             (UsableHeaders(h) /\ ExpectedFormat(h) = ExpectedFormat(event.headers))
             => handler([event EXCEPT !.headers = h]).request.uri = request.uri

C6_Witness ==
    /\ Returned
    /\ UsableHeaders(event.headers)
    /\ HasWidthParam(event)
    /\ HasKey(event.querystring, "height")
    /\ HasKey(event.querystring, "Width")
    /\ request.uri = FormatWidthKey(event, <<"2">>)

(***************************************************************************)
(* C7. Whenever normalization raises an internal error (no headers map, an *)
(* Accept entry without a value), the handler returns the request with its *)
(* original URI and its original query string, and no error reaches the    *)
(* caller.                                                                 *)
(***************************************************************************)
C7_FailOpen ==
    /\ nzPc # "threw"
    /\ (nzPc # "ready" /\ ~UsableHeaders(event.headers))
       => /\ Returned
          /\ request.uri = event.uri
          /\ request.querystring = event.querystring
          /\ request = event

C7_Witness ==
    /\ Returned
    /\ caught
    /\ ~event.headers.defined
    /\ Len(event.querystring.params) > 1
    /\ request.querystring = event.querystring

(***************************************************************************)
(* C8. Every URI emitted without an internal error is '<path>/format=F' or *)
(* '<path>/format=F,width=W', F one of avif, webp, jpeg and W an integer   *)
(* of 1..4000 in plain decimal; format comes first and is never absent;    *)
(* the fast path for common widths emits the string the general path       *)
(* emits for the same request.                                             *)
(***************************************************************************)
C8_CanonicalKeyShape ==
    (Returned /\ UsableHeaders(event.headers))
    => /\ \E F \in {AVIF, WEBP, JPEG} :
            LET key == event.uri \o SLASH_FORMAT_EQ \o F
                rest == SubSeq(request.uri, Len(key) + 1, Len(request.uri))
            IN /\ Len(request.uri) >= Len(key)
               /\ SubSeq(request.uri, 1, Len(key)) = key
               /\ \/ rest = <<>>
                  \/ /\ Len(rest) > Len(COMMA_WIDTH_EQ)
                     /\ SubSeq(rest, 1, Len(COMMA_WIDTH_EQ)) = COMMA_WIDTH_EQ
                     /\ LET W == SubSeq(rest, Len(COMMA_WIDTH_EQ) + 1, Len(rest))
                        IN /\ IsPlainPositiveDecimal(W)
                           /\ parseInt(W).n \in 1..4000
       /\ (/\ HasWidthParam(event)
           /\ \E i \in 1..Len(COMMON_WIDTHS) :
                 parseInt(WidthValue(event)) = Num(COMMON_WIDTHS[i]))
          => request.uri =
               GeneralUri(event.uri,
                          NormalizedOperations(event, ExpectedFormat(event.headers)))

C8_Witness ==
    /\ Returned
    /\ UsableHeaders(event.headers)
    /\ HasWidthParam(event)
    /\ WidthValue(event) = <<"3", "0", "0", "p", "x">>
    /\ request.uri = FormatWidthKey(event, <<"3", "0", "0">>)

(***************************************************************************)
(* Vocabulary of the properties of the Variant Orchestrator.               *)
(***************************************************************************)
Responded == orchPc = "responded"

\* the transform produced a buffer larger than the configured maximum
Oversized == transformedImage # NoImage /\ transformedImage.byteLength > MaxImageSizeSetting

\* s with every ',' replaced by '&'
CommasToAmpersands(s) == join(split(s, ","), <<"&">>)

\* the record the store holds under key, if any
StoredUnder(key) == {r \in transformedStore : r.Key = key}

(***************************************************************************)
(* C9. When the transformed bytes exceed the configured maximum response   *)
(* size and the write to the transformed-variant store succeeded, the      *)
(* response is a 302 with Cache-Control 'private,no-store', a              *)
(* Server-Timing header, no body, and Location '/' + source path + '?' +   *)
(* the operation string with every ',' replaced by '&'; and whenever a 302 *)
(* is returned the store holds the record under source path + '/' +        *)
(* operation string.                                                       *)
(***************************************************************************)
C9_OversizedStoredRedirects ==
    /\ (Responded /\ Oversized /\ putOutcome = "ok")
       => /\ response.statusCode = 302
          /\ DOMAIN response = {"statusCode", "headers"}
          /\ DOMAIN response.headers = {"Location", "CacheControl", "ServerTiming"}
          /\ response.headers.CacheControl = "private,no-store"
          /\ Len(response.headers.ServerTiming) > 0
          /\ response.headers.Location =
               SLASH \o lambdaEvent.source \o <<"?">>
                     \o CommasToAmpersands(lambdaEvent.operations)
    /\ (Responded /\ response.statusCode = 302)
       => \E r \in StoredUnder(lambdaEvent.source \o SLASH \o lambdaEvent.operations) :
             r.Body = transformedImage

C9_Witness ==
    /\ Responded
    /\ Oversized
    /\ putOutcome = "ok"
    /\ response.statusCode = 302
    /\ lambdaEvent.source = I_B
    /\ response.headers.Location =
         <<"/", "i", "/", "b", "?", "f", "o", "r", "m", "a", "t", "=", "a", "v", "i", "f",
           "&", "w", "i", "d", "t", "h", "=", "3", "0", "0">>

(***************************************************************************)
(* C10. When the transformed bytes exceed the configured maximum response  *)
(* size and either no transformed-variant store is configured or the store *)
(* write failed, the response is a 403 that carries only a short text      *)
(* message and no image bytes; it is never a 200 and never a 302.          *)
(***************************************************************************)
C10_OversizedUnstoredIs403 ==
    (Responded /\ Oversized /\ (~bucketConfigured \/ putOutcome = "failed"))
    => /\ response.statusCode = 403
       /\ response.statusCode \notin {200, 302}
       /\ DOMAIN response = {"statusCode", "body"}
       /\ response.body = "Requested transformed image is too big"

C10_Witness ==
    /\ Responded
    /\ Oversized
    /\ bucketConfigured
    /\ putOutcome = "failed"
    /\ response.statusCode = 403
    /\ transformedStore = {}

C10_WitnessNoStore ==
    /\ Responded
    /\ Oversized
    /\ ~bucketConfigured
    /\ response.statusCode = 403

\* the invocation is over: it returned a response or an exception left it
Ended == orchPc \in {"responded", "threw"}

\* the awaited calls of the invocation, by how they ended
Called(op) == \E i \in DOMAIN calls : calls[i].op = op
Succeeded(op) == \E i \in DOMAIN calls : calls[i].op = op /\ calls[i].ok
Failed(op) == \E i \in DOMAIN calls : calls[i].op = op /\ ~calls[i].ok

\* the Variant Key of the request, as its path spells it
RequestedKey == lambdaEvent.source \o SLASH \o lambdaEvent.operations

(***************************************************************************)
(* C11. A failure of the write to the transformed-variant store is never   *)
(* surfaced: when the fetch and the transform succeeded and the result is  *)
(* not oversized, the response is a 200 carrying the computed bytes, the   *)
(* resolved content type, the configured cache lifetime and the timing     *)
(* header, whether the write succeeded, failed or was not attempted.       *)
(***************************************************************************)
C11_StoreFailureNotSurfaced ==
    (Responded /\ Succeeded("toBuffer") /\ ~Oversized)
    => /\ putOutcome \in {"ok", "failed", "none"}
       /\ response.statusCode = 200
       /\ response.body = [base64 |-> transformedImage]
       /\ response.isBase64Encoded
       /\ response.headers.ContentType = contentType
       /\ response.headers.CacheControl = TRANSFORMED_IMAGE_CACHE_TTL
       /\ Len(response.headers.ServerTiming) >= 2
       /\ response.headers.ServerTiming[1].name = "img-download"
       /\ response.headers.ServerTiming[2].name = "img-transform"

C11_Witness ==
    /\ Responded
    /\ Succeeded("toBuffer")
    /\ ~Oversized
    /\ Failed("PutObject")
    /\ putOutcome = "failed"
    /\ transformedStore = {}
    /\ response.statusCode = 200
    /\ response.body.base64.source = A_JPG

(***************************************************************************)
(* C12. An event that is no upload notification and whose method is not    *)
(* GET, or that has no HTTP request context, is answered with status 400   *)
(* and body 'Only GET method is supported', and in that invocation no      *)
(* origin-store read, no codec call and no variant-store write is made.    *)
(***************************************************************************)
C12_NonGetRejectedWithoutIO ==
    (orchPc \notin {"idle", "invoked"}
        /\ lambdaEvent.eventSource # "aws:s3"
        /\ (~lambdaEvent.hasRequestContext \/ lambdaEvent.method # "GET"))
    => /\ Responded
       /\ response = [statusCode |-> 400, body |-> "Only GET method is supported"]
       /\ calls = <<>>
       /\ transformedImage = NoImage
       /\ transformedStore = {}

C12_Witness ==
    /\ Responded
    /\ lambdaEvent.hasRequestContext
    /\ lambdaEvent.method = "POST"
    /\ response.statusCode = 400
    /\ calls = <<>>

(***************************************************************************)
(* C13. When reading the Source Image from the origin store fails, be it   *)
(* the get call or the reading of the returned body, the response is a 500 *)
(* and no decode, transform or variant-store write is attempted.           *)
(***************************************************************************)
C13_OriginReadFailureIs500 ==
    (Ended /\ (Failed("GetObject") \/ Failed("transformToByteArray")))
    => /\ Responded
       /\ response.statusCode = 500
       /\ ~Called("metadata")
       /\ ~Called("toBuffer")
       /\ ~Called("PutObject")

\* the part of C13 that holds: a failed get call is answered with a 500
C13_GetFailureIs500 ==
    (Ended /\ Failed("GetObject"))
    => /\ response = [statusCode |-> 500, body |-> "Error downloading original image"]
       /\ Len(calls) = 1

(***************************************************************************)
(* C14. An exception raised while decoding the source's pixel metadata or  *)
(* while resizing, rotating and encoding gives a structured 500 response   *)
(* saying that the transform failed, and nothing is written to the         *)
(* transformed-variant store.                                              *)
(***************************************************************************)
C14_TransformFailureIs500 ==
    (Ended /\ ~Failed("transformToByteArray")
           /\ (Failed("metadata") \/ Failed("toBuffer")))
    => /\ Responded
       /\ response = [statusCode |-> 500, body |-> "error transforming image"]
       /\ ~Called("PutObject")
       /\ transformedStore = previous.store

\* the part of C14 that holds: a failure of resize, rotate or encode is a 500
C14_EncodeFailureIs500 ==
    (Ended /\ Failed("toBuffer"))
    => /\ response = [statusCode |-> 500, body |-> "error transforming image"]
       /\ ~Called("PutObject")
       /\ transformedStore = previous.store

(***************************************************************************)
(* Vocabulary of the properties of the Warm-Cache Fan-Out.                 *)
(***************************************************************************)
\* the key of the uploaded object
UploadedKey == decodeURIComponent(s3Event.key)

\* the cells were dispatched; the handler has returned
Dispatched == fanPc \in {"settling", "returned"} /\ Len(tasks) > 0
FanReturned == fanPc = "returned"

\* the keys of the transformed-variant store
StoredKeys == {r.Key : r \in transformedStore}

\* the key of a cell, spelled out
CellKey(key, format, width) ==
    IF width = 0
    THEN key \o <<"/", "f", "o", "r", "m", "a", "t", "=">> \o format
    ELSE key \o <<"/", "f", "o", "r", "m", "a", "t", "=">> \o format
             \o <<",", "w", "i", "d", "t", "h", "=">> \o toString(width)

\* the keys of the matrix: both formats, without a width and with each width
MatrixKeys(key, widths) ==
    {CellKey(key, f, 0) : f \in {WEBP, AVIF}}
    \cup {CellKey(key, f, w) : f \in {WEBP, AVIF}, w \in Range(widths)}

\* cell i can take the next step of a run that succeeds
CellCanProceed(i) ==
    ENABLED (CellMetadata(i) \/ CellToBuffer(i) \/ CellPutObject(i))

C16_FanOutMatrix ==
    /\ (FanReturned /\ Dispatched
          /\ originStore[UploadedKey].ContentLength <= LARGE_IMAGE_BYTES
          /\ \A i \in DOMAIN tasks : tasks[i].at = "stored")
       => /\ StoredKeys = MatrixKeys(UploadedKey, FanOutWidths)
          /\ Cardinality(transformedStore) = Len(tasks)
          /\ Len(tasks) = 2 * (1 + Len(FanOutWidths))
    /\ Dispatched
       => LET key == UploadedKey
              stored == StoredKeys
          IN \A i \in DOMAIN tasks :
                (tasks[i].at = "stored")
                <=> (CellKey(key, tasks[i].format, tasks[i].width) \in stored)
    /\ (fanPc = "body")
       => LET cells == optimizationTasks(FALSE, FANOUT_COMMON_WIDTHS)
          IN /\ {optimizedKey(UploadedKey, cells[i].format, cells[i].width) :
                     i \in DOMAIN cells}
                  = MatrixKeys(UploadedKey, FANOUT_COMMON_WIDTHS)
             /\ Cardinality(MatrixKeys(UploadedKey, FANOUT_COMMON_WIDTHS)) = Len(cells)

C16_Witness ==
    /\ FanReturned
    /\ Dispatched
    /\ UploadedKey = A_JPG
    /\ \A i \in DOMAIN tasks : tasks[i].at = "stored"
    /\ Cardinality(transformedStore) = 2 * (1 + MaxWidths)
    /\ <<"a", ".", "j", "p", "g", "/", "f", "o", "r", "m", "a", "t", "=", "a", "v", "i", "f",
         ",", "w", "i", "d", "t", "h", "=", "6", "4", "0">> \in StoredKeys

\* the request a client sends for source p when it accepts format f and asks
\* for width w (0: no query)
ClientRequest(p, f, w) ==
    [uri |-> SLASH \o p,
     querystring |->
        [defined |-> TRUE,
         params |-> IF w = 0 THEN <<>>
                    ELSE <<[name |-> "width", value |-> toString(w)]>>],
     headers |-> [defined |-> TRUE, hasAccept |-> TRUE,
                  accept |-> [hasValue |-> TRUE, value |-> IMAGE_SLASH \o f]]]

\* the key under which the Variant Orchestrator persists when it serves what
\* the Key Normalizer makes of that request
OnDemandKey(p, f, w) ==
    LET uri == handler(ClientRequest(p, f, w)).request.uri
    IN VariantKey(OriginalImagePathOf(uri), OperationsPrefixOf(uri))

(***************************************************************************)
(* C17. For every source path, format and width (or no width) of the       *)
(* Fan-Out matrix, the key under which Fan-Out persists the cell is the    *)
(* key under which the Variant Orchestrator persists when it serves the    *)
(* Key Normalizer's output for a request for that path that negotiates     *)
(* that format and asks for that width (or has no query).                  *)
(***************************************************************************)
C17_FanOutKeyIsOnDemandKey ==
    /\ (FanReturned /\ Dispatched)
       => \A i \in DOMAIN tasks :
             tasks[i].at = "stored"
             => \E r \in transformedStore :
                   /\ r.Key = OnDemandKey(UploadedKey, tasks[i].format, tasks[i].width)
                   /\ r.Body.format = tasks[i].format
                   /\ r.Body.width = tasks[i].width
    /\ (fanPc = "body")
       => \A f \in {WEBP, AVIF}, w \in {0} \cup Range(FANOUT_COMMON_WIDTHS) :
             optimizedKey(UploadedKey, f, w) = OnDemandKey(UploadedKey, f, w)

C17_Witness ==
    /\ Dispatched
    /\ UploadedKey = I_B
    /\ \E i \in DOMAIN tasks :
          /\ tasks[i].at = "stored"
          /\ tasks[i].width = FANOUT_COMMON_WIDTHS[1]
          /\ OnDemandKey(I_B, tasks[i].format, tasks[i].width) \in StoredKeys
    /\ OnDemandKey(I_B, WEBP, 640) =
         <<"i", "/", "b", "/", "f", "o", "r", "m", "a", "t", "=", "w", "e", "b", "p",
           ",", "w", "i", "d", "t", "h", "=", "6", "4", "0">>

\* the request of the invocation was handled before, and then every awaited
\* call ended as it ends now
RepeatedWithSameOutcomes == Ended /\ previous.finished /\ calls = previous.calls

\* a response with the measured durations of its Server-Timing header left out
WithoutDurations(r) ==
    IF "headers" \in DOMAIN r
    THEN [r EXCEPT !.headers.ServerTiming =
              [i \in DOMAIN r.headers.ServerTiming |-> r.headers.ServerTiming[i].name]]
    ELSE r

(***************************************************************************)
(* C18, as stated. With a deterministic codec and an unchanged Source      *)
(* Image, a second invocation with the same path and operation string      *)
(* produces the same response as the first and leaves the                  *)
(* transformed-variant store as the first left it.                         *)
(***************************************************************************)
C18_RepeatGivesSameResponse ==
    RepeatedWithSameOutcomes
    => /\ response = previous.response
       /\ transformedStore = previous.store

(***************************************************************************)
(* C18, amended. With a deterministic codec and an unchanged Source Image, *)
(* a second invocation with the same path and operation string in which    *)
(* every external call ends as it did in the first produces the same       *)
(* response apart from the durations of the Server-Timing header (same     *)
(* status, bytes, content type, cache lifetime, Location) and leaves the   *)
(* transformed-variant store as the first left it.                         *)
(***************************************************************************)
C18_RepeatGivesSameVariant ==
    RepeatedWithSameOutcomes
    => /\ WithoutDurations(response) = WithoutDurations(previous.response)
       /\ transformedStore = previous.store

C18_Witness ==
    /\ RepeatedWithSameOutcomes
    /\ Succeeded("PutObject")
    /\ response.statusCode = 200
    /\ response # previous.response
    /\ response.body = previous.response.body
    /\ \E r \in transformedStore : r.Key = RequestedKey /\ r.Body = response.body.base64

\* the Variant Key of the request was in the store when the invocation began
KeyPresentAtStart ==
    previous.finished /\ \E r \in previous.store : r.Key = RequestedKey

(***************************************************************************)
(* C19, as stated. A request whose Variant Key is already present in the   *)
(* transformed-variant store is served from the store: no source fetch, no *)
(* transform and no store write happens for it.                            *)
(***************************************************************************)
C19_HitServedFromStore ==
    (Ended /\ KeyPresentAtStart)
    => /\ ~Called("GetObject")
       /\ ~Called("toBuffer")
       /\ ~Called("PutObject")
       /\ Responded
       /\ response.statusCode = 200
       /\ \E r \in previous.store : r.Key = RequestedKey /\ response.body.base64 = r.Body

(***************************************************************************)
(* C19, amended. The Variant Orchestrator never consults the               *)
(* transformed-variant store: a request whose Variant Key is already       *)
(* present is handled like any other. It reads the source from the origin  *)
(* store, a 200 or 302 answer comes from a fresh transform, and when a     *)
(* store is configured the fresh result is written over the record.        *)
(***************************************************************************)
C19_HitIsRecomputed ==
    (Ended /\ KeyPresentAtStart)
    => /\ Called("GetObject")
       /\ (Responded /\ response.statusCode \in {200, 302})
          => /\ Succeeded("GetObject")
             /\ Succeeded("toBuffer")
             /\ Called("PutObject")
       /\ Succeeded("PutObject")
          => \E r \in transformedStore : r.Key = RequestedKey /\ r.Body = transformedImage

C19_Witness ==
    /\ Responded
    /\ KeyPresentAtStart
    /\ Succeeded("GetObject")
    /\ Succeeded("toBuffer")
    /\ Succeeded("PutObject")
    /\ response.statusCode = 200

(***************************************************************************)
(* C20. Every on-demand GET request, whatever the outcomes of the origin   *)
(* read, the metadata decode, the transform and the store write, ends in   *)
(* exactly one Respond state among 200, 302, 403 and 5xx, returned as a    *)
(* structured response; no invocation ends otherwise, such as by an        *)
(* exception leaving the handler.                                          *)
(***************************************************************************)
C20_EveryGetEndsInARespondState ==
    (Ended /\ lambdaEvent.hasRequestContext /\ lambdaEvent.method = "GET")
    => /\ orchPc = "responded"
       /\ response.statusCode \in {200, 302, 403} \cup 500..599

\* the part of C20 that holds: a returned response has one of the statuses
C20_ReturnedStatuses ==
    (Responded /\ lambdaEvent.hasRequestContext /\ lambdaEvent.method = "GET")
    => response.statusCode \in {200, 302, 403, 500}

\* how many times the invocation has sent the call
Attempts(op) == Cardinality({i \in DOMAIN calls : calls[i].op = op})

\* the invocation is over: it returned, threw, or was abandoned by a timeout
Over == orchPc \in {"responded", "threw", "abandoned"}

(***************************************************************************)
(* C21. Within one on-demand request the read of the origin store, the     *)
(* encode by the codec and the write to the transformed-variant store are  *)
(* each attempted at most once, and exactly once by every execution that   *)
(* reaches the step; a failed call is the last call of the invocation, so  *)
(* no failure is followed by a second attempt.                             *)
(***************************************************************************)
C21_EachStepAttemptedOnce ==
    /\ \A op \in {"GetObject", "toBuffer", "PutObject"} : Attempts(op) <= 1
    /\ \A i \in DOMAIN calls : ~calls[i].ok => i = Len(calls)
    /\ (Ended /\ IsGet(lambdaEvent) /\ ~IsUpload(lambdaEvent))
       => Attempts("GetObject") = 1
    /\ (Ended /\ Succeeded("metadata")) => Attempts("toBuffer") = 1
    /\ (Ended /\ Succeeded("toBuffer") /\ bucketConfigured)
       => Attempts("PutObject") = 1

C21_Witness ==
    /\ Responded
    /\ invocations > 1
    /\ Failed("PutObject")
    /\ Attempts("GetObject") = 1
    /\ Attempts("toBuffer") = 1
    /\ Attempts("PutObject") = 1
    /\ response.statusCode = 200

\* the awaited calls of the handler, in the order of the code
StepOrder == <<"GetObject", "transformToByteArray", "metadata", "toBuffer", "PutObject">>

(***************************************************************************)
(* C22. Within one request the steps complete one after the other: the     *)
(* read of the origin store (GetObject and the body) has completed before  *)
(* the codec is given the image, the encode has completed before the write *)
(* to the store is sent and before any 200, 302 or 403 is produced, and no *)
(* call is sent before the one ahead of it has come back with success.     *)
(***************************************************************************)
C22_StepsDoNotOverlap ==
    /\ Len(calls) <= Len(StepOrder)
    /\ \A i \in DOMAIN calls :
          /\ calls[i].op = StepOrder[i]
          /\ i < Len(calls) => calls[i].ok
    /\ orchPc \in {"metadata", "transform"}
       => Succeeded("GetObject") /\ Succeeded("transformToByteArray")
    /\ orchPc = "transformed" => Succeeded("toBuffer")
    /\ Called("PutObject") => Succeeded("toBuffer")
    /\ (Responded /\ response.statusCode \in {200, 302, 403})
       => Succeeded("toBuffer")

C22_Witness ==
    /\ Responded
    /\ response.statusCode = 302
    /\ Len(calls) = Len(StepOrder)
    /\ \A i \in DOMAIN calls : calls[i].ok

\* the record the invocation writes under its Variant Key
WrittenRecord ==
    PutImageCommand(originalImagePath, operationsPrefix, transformedImage, contentType)

(***************************************************************************)
(* C23. The Variant Orchestrator changes the transformed-variant store     *)
(* only by the one write of its own record after a successful encode. An   *)
(* invocation that ends before that (400, a failed fetch, a failed         *)
(* transform, an exception, or a timeout at any earlier await) leaves the  *)
(* store as it was when the invocation began.                              *)
(***************************************************************************)
C23_StoreFrame ==
    /\ Attempts("PutObject") <= 1
    /\ transformedStore # previous.store
       => /\ Succeeded("toBuffer")
          /\ Over
          /\ bucketConfigured
          /\ transformedStore = PutObject(previous.store, WrittenRecord)
    /\ (Over /\ ~Succeeded("toBuffer")) => transformedStore = previous.store
    /\ Succeeded("PutObject")
       => transformedStore = PutObject(previous.store, WrittenRecord)

C23_Witness ==
    /\ orchPc = "abandoned"
    /\ Succeeded("metadata")
    /\ ~Called("toBuffer")
    /\ previous.store # {}
    /\ transformedStore = previous.store

\* the cell has caught an error
Caught(i) == tasks[i].message # <<>>

\* the message speaks of memory or of an allocation
ResourceExhaustion(message) ==
    \/ Contains(message, <<"m", "e", "m", "o", "r", "y">>)
    \/ Contains(message, <<"a", "l", "l", "o", "c", "a", "t", "i", "o", "n">>)

DispatchedCells == {<<tasks[i].format, tasks[i].width>> : i \in DOMAIN tasks}

(***************************************************************************)
(* C25. When the uploaded source is strictly larger than 1048576 bytes     *)
(* only webp is computed: one cell without a width and one per common      *)
(* width, and no avif record is written for the upload. A source of        *)
(* 1048576 bytes or less gets both formats, each without a width and with  *)
(* each common width.                                                      *)
(***************************************************************************)
C25_LargeSourceWebpOnly ==
    /\ Dispatched
       => IF originStore[UploadedKey].ContentLength > 1048576
          THEN /\ DispatchedCells = {WEBP} \X ({0} \cup Range(FanOutWidths))
               /\ Len(tasks) = 1 + Len(FanOutWidths)
               /\ \A r \in transformedStore :
                     /\ r.Body.format = WEBP
                     /\ ~Contains(r.Key, AVIF)
          ELSE /\ DispatchedCells = {WEBP, AVIF} \X ({0} \cup Range(FanOutWidths))
               /\ Len(tasks) = 2 * (1 + Len(FanOutWidths))
    /\ (fanPc = "body")
       => /\ Range(optimizationTasks(TRUE, FANOUT_COMMON_WIDTHS))
               = {Cell(WEBP, w) : w \in {0} \cup Range(FANOUT_COMMON_WIDTHS)}
          /\ Len(optimizationTasks(TRUE, FANOUT_COMMON_WIDTHS))
               = 1 + Len(FANOUT_COMMON_WIDTHS)
          /\ Range(optimizationTasks(FALSE, FANOUT_COMMON_WIDTHS))
               = {Cell(f, w) : f \in {WEBP, AVIF}, w \in {0} \cup Range(FANOUT_COMMON_WIDTHS)}

C25_Witness ==
    /\ FanReturned
    /\ Dispatched
    /\ UploadedKey = I_B
    /\ originStore[UploadedKey].ContentLength = 1048577
    /\ \A i \in DOMAIN tasks : tasks[i].at = "stored"
    /\ Cardinality(transformedStore) = 1 + MaxWidths

\* the declared content type of the uploaded object is that of an image
DeclaredImage(object) ==
    /\ object.hasContentType
    /\ Len(object.ContentType) >= 6
    /\ SubSeq(object.ContentType, 1, 6) = <<"i", "m", "a", "g", "e", "/">>

(***************************************************************************)
(* C26. When the declared content type of the uploaded object does not     *)
(* start with 'image/', the Fan-Out dispatches no cell, writes nothing to  *)
(* the transformed-variant store and, once the object is read, returns 200 *)
(* 'Skipped non-image file'. When the object has no declared content type  *)
(* it returns 500 and likewise dispatches and writes nothing.              *)
(***************************************************************************)
C26_NonImageSkipped ==
    (UploadedKey \in DOMAIN originStore /\ ~DeclaredImage(originStore[UploadedKey]))
    => /\ tasks = <<>>
       /\ transformedStore = {}
       /\ fanPc = "body"
          => /\ ~ENABLED Dispatch
             /\ originStore[UploadedKey].hasContentType
                => ENABLED SkipNonImage /\ ~ENABLED ContentTypeMissing
             /\ ~originStore[UploadedKey].hasContentType
                => ENABLED ContentTypeMissing /\ ~ENABLED SkipNonImage
       /\ FanReturned
          => IF originStore[UploadedKey].hasContentType
             THEN \/ fanResponse = [statusCode |-> 200, body |-> "Skipped non-image file"]
                  \/ fanResponse.statusCode = 500
             ELSE fanResponse.statusCode = 500

C26_Witness ==
    /\ FanReturned
    /\ UploadedKey = N_AT_T
    /\ fanResponse = [statusCode |-> 200, body |-> "Skipped non-image file"]
    /\ tasks = <<>>
    /\ transformedStore = {}

C26_WitnessUntyped ==
    /\ FanReturned
    /\ UploadedKey = UNTYPED
    /\ fanResponse.statusCode = 500

(***************************************************************************)
(* C27, as stated. For every upload the number of cells dispatched is at   *)
(* most the size of the format list times the size of the Common-Width     *)
(* Set.                                                                    *)
(***************************************************************************)
C27_CeilingFormatsTimesWidths ==
    /\ Dispatched => Len(tasks) <= Cardinality({WEBP, AVIF}) * Len(FanOutWidths)
    /\ (fanPc = "body")
       => \A large \in BOOLEAN :
             Len(optimizationTasks(large, FANOUT_COMMON_WIDTHS))
               <= Cardinality({WEBP, AVIF}) * Len(FANOUT_COMMON_WIDTHS)

(***************************************************************************)
(* C27, amended. For every upload the number of cells dispatched is at     *)
(* most the size of the format list times one more than the size of the    *)
(* Common-Width Set (each format has a cell without a width besides one    *)
(* per common width); an image not above the large-file threshold          *)
(* dispatches exactly that many, all different.                            *)
(***************************************************************************)
C27_CeilingFormatsTimesWidthsPlusOne ==
    /\ Dispatched
       => /\ Len(tasks) <= Cardinality({WEBP, AVIF}) * (Len(FanOutWidths) + 1)
          /\ Cardinality(DispatchedCells) = Len(tasks)
          /\ originStore[UploadedKey].ContentLength <= 1048576
             => Len(tasks) = Cardinality({WEBP, AVIF}) * (Len(FanOutWidths) + 1)
    /\ (fanPc = "body")
       => \A large \in BOOLEAN :
             Len(optimizationTasks(large, FANOUT_COMMON_WIDTHS))
               <= Cardinality({WEBP, AVIF}) * (Len(FANOUT_COMMON_WIDTHS) + 1)

C27_Witness ==
    /\ fanPc = "settling"
    /\ UploadedKey = A_JPG
    /\ Len(tasks) = 2 * (MaxWidths + 1)
    /\ Len(tasks) > 2 * MaxWidths
    /\ \A i \in DOMAIN tasks : tasks[i].at = "metadata"

\* the record an on-demand request for the Variant Key writes: what the
\* Variant Orchestrator makes of the path /key
OnDemandRecord(key) ==
    LET path == SLASH \o key
        source == OriginalImagePathOf(path)
        prefix == OperationsPrefixOf(path)
    IN PutImageCommand(source, prefix, EncodedBuffer(source, prefix, 0),
                       ContentTypeAfter(prefix, originStore[source].ContentType))

\* the width of an on-demand buffer as the Fan-Out counts it (0: no width)
WidthOf(image) == IF image.width.nan THEN 0 ELSE image.width.n

(***************************************************************************)
(* C28, as stated. For an unchanged Source Image and a Variant Key, the    *)
(* record a Fan-Out cell stores under the key and the record an on-demand  *)
(* request for the key writes are computed from the same source with the   *)
(* same format, quality and content type, so that whichever write comes    *)
(* last the record under the key is the same.                              *)
(***************************************************************************)
C28_SameKeyWritersAgree ==
    Dispatched
    => \A r \in transformedStore :
          /\ OnDemandRecord(r.Key).Key = r.Key
          /\ OnDemandRecord(r.Key).ContentType = r.ContentType
          /\ OnDemandRecord(r.Key).CacheControl = r.CacheControl
          /\ OnDemandRecord(r.Key).Body.source = r.Body.source
          /\ OnDemandRecord(r.Key).Body.format = r.Body.format
          /\ WidthOf(OnDemandRecord(r.Key).Body) = r.Body.width
          /\ OnDemandRecord(r.Key).Body.quality = r.Body.quality

\* the part of C28 that holds: the two writers of a key agree on everything
\* but the quality
C28_SameKeyWritersAgreeButForQuality ==
    Dispatched
    => \A r \in transformedStore :
          /\ OnDemandRecord(r.Key).Key = r.Key
          /\ OnDemandRecord(r.Key).ContentType = r.ContentType
          /\ OnDemandRecord(r.Key).CacheControl = r.CacheControl
          /\ OnDemandRecord(r.Key).Body.source = r.Body.source
          /\ OnDemandRecord(r.Key).Body.format = r.Body.format
          /\ WidthOf(OnDemandRecord(r.Key).Body) = r.Body.width
          /\ OnDemandRecord(r.Key).Body.rotated = r.Body.rotated

\* a Fan-Out record whose quality is not that of the on-demand path
C28_QualityDiffers ==
    /\ FanReturned
    /\ \E r \in transformedStore :
          /\ r.Body.format = AVIF
          /\ r.Body.quality = 70
          /\ OnDemandRecord(r.Key).Body.quality = 75

\* a cell of the upload ended with an error of the resource-exhaustion class
SomeCellFatal == \E i \in DOMAIN tasks : tasks[i].at = "rejected"

\* the handler reported the upload as failed
ReportedFailed == fanResponse.statusCode # 200

(***************************************************************************)
(* C29, as stated. The Fan-Out reports the operation as failed exactly     *)
(* when at least one cell ended Fatal: cells that succeeded or were        *)
(* skipped never make it fail, and a Fatal cell always does.               *)
(***************************************************************************)
C29_FailedExactlyWhenFatal ==
    (FanReturned /\ Dispatched) => (ReportedFailed <=> SomeCellFatal)

\* the part of C29 that holds: once the cells are dispatched the handler
\* reports completion, whatever the cells did
C29_DispatchedUploadReportsCompletion ==
    (FanReturned /\ Dispatched)
    => fanResponse = [statusCode |-> 200, body |-> "Image optimization completed"]

\* an upload with a Fatal cell that is reported as completed
C29_FatalReportedCompleted ==
    /\ FanReturned
    /\ SomeCellFatal
    /\ ~ReportedFailed

EncodedAs(image) ==
    IF Len(image.format) > 0 THEN image.format
    ELSE LET type == originStore[image.source].ContentType
             subtype == SubSeq(type, Len(IMAGE_SLASH) + 1, Len(type))
         IN IF subtype = SVG_XML THEN PNG ELSE subtype

\* the content type that names a format
TypeOf(format) == <<"i", "m", "a", "g", "e", "/">> \o format

(***************************************************************************)
(* C31, as stated. For every operation string the Variant Orchestrator     *)
(* accepts, the Content-Type of a 200 response and the content type stored *)
(* with the Variant Record name the format the bytes were encoded in; a    *)
(* 'format' outside jpeg, webp and avif is not encoded in one format and   *)
(* declared as another.                                                    *)
(***************************************************************************)
C31_ContentTypeNamesEncoding ==
    /\ (Responded /\ response.statusCode = 200)
       => response.headers.ContentType = TypeOf(EncodedAs(response.body.base64))
    /\ \A r \in transformedStore : r.ContentType = TypeOf(EncodedAs(r.Body))

\* the part of C31 that holds: the declared type names the encoding whenever
\* the format asked for is jpeg, webp or avif, or none is asked for
C31_ContentTypeNamesKnownEncoding ==
    /\ (Responded /\ response.statusCode = 200
          /\ response.body.base64.format \in {<<>>, JPEG, WEBP, AVIF})
       => response.headers.ContentType = TypeOf(EncodedAs(response.body.base64))
    /\ \A r \in transformedStore :
          r.Body.format \in {<<>>, JPEG, WEBP, AVIF}
          => r.ContentType = TypeOf(EncodedAs(r.Body))

\* PNG bytes declared and stored as image/jpeg
C31_PngDeclaredAsJpeg ==
    /\ Responded
    /\ response.statusCode = 200
    /\ response.body.base64.format = PNG
    /\ response.headers.ContentType = TypeOf(JPEG)
    /\ \E r \in transformedStore : r.Body.format = PNG /\ r.ContentType = TypeOf(JPEG)

\* the keys the Fan-Out persists for an upload of the source below the
\* large-file threshold when every cell succeeds
PreWarmedKeys(key) ==
    LET cells == optimizationTasks(FALSE, FANOUT_COMMON_WIDTHS)
    IN {optimizedKey(key, cells[i].format, cells[i].width) : i \in DOMAIN cells}

\* the Key Normalizer takes its common-width fast path for the request
TakesFastPath(p, f, w) ==
    /\ ~AcceptThrows(ClientRequest(p, f, w).headers)
    /\ ~NoQueryBranch(ClientRequest(p, f, w))
    /\ FastPath(ClientRequest(p, f, w))
    /\ NegotiatedFormat(ClientRequest(p, f, w).headers) = f

\* an image below the large-file threshold has been uploaded and read
SmallImageRead ==
    /\ fanPc = "body"
    /\ originStore[UploadedKey].hasContentType
    /\ startsWith(originStore[UploadedKey].ContentType, IMAGE_SLASH)
    /\ originStore[UploadedKey].ContentLength <= 1048576

(***************************************************************************)
(* C32, as stated. Every key the Key Normalizer emits through its          *)
(* common-width fast path (a negotiated format among avif, webp and jpeg   *)
(* with a width of the normalizer's common-width list) is one of the keys  *)
(* the Fan-Out persists for an upload of the same source below the         *)
(* large-file threshold when all cells succeed.                            *)
(***************************************************************************)
C32_FastPathKeysArePreWarmed ==
    SmallImageRead
    => \A f \in {AVIF, WEBP, JPEG}, w \in Range(COMMON_WIDTHS) :
          /\ TakesFastPath(UploadedKey, f, w)
          /\ OnDemandKey(UploadedKey, f, w) \in PreWarmedKeys(UploadedKey)

\* the part of C32 that holds: the fast path is taken for each of these
\* requests, and its key is pre-warmed exactly when the format is webp or avif
\* and the width is also a width of the Fan-Out
C32_FastPathKeysPreWarmedWhenShared ==
    SmallImageRead
    => \A f \in {AVIF, WEBP, JPEG}, w \in Range(COMMON_WIDTHS) :
          /\ TakesFastPath(UploadedKey, f, w)
          /\ OnDemandKey(UploadedKey, f, w) \in PreWarmedKeys(UploadedKey)
             <=> (f \in {AVIF, WEBP} /\ w \in Range(FANOUT_COMMON_WIDTHS))

\* a fast-path key no cell of the upload has
C32_FastPathKeyNotPreWarmed ==
    /\ SmallImageRead
    /\ UploadedKey = A_JPG
    /\ TakesFastPath(A_JPG, AVIF, 300)
    /\ OnDemandKey(A_JPG, AVIF, 300)
         = <<"a", ".", "j", "p", "g", "/", "f", "o", "r", "m", "a", "t", "=", "a", "v", "i", "f",
             ",", "w", "i", "d", "t", "h", "=", "3", "0", "0">>
    /\ OnDemandKey(A_JPG, AVIF, 300) \notin PreWarmedKeys(A_JPG)
    /\ OnDemandKey(A_JPG, AVIF, 1200) \in PreWarmedKeys(A_JPG)

\* the name of a query parameter as the key of the querystring object
ParamName(chars) ==
    IF chars = <<"w", "i", "d", "t", "h">> THEN "width"
    ELSE IF chars = <<"f", "o", "r", "m", "a", "t">> THEN "format"
    ELSE "other"

\* the request the edge builds when a client follows a Location URL and sends
\* the headers it sent before: the path, and the query taken apart at & and =
FollowRedirect(location, headers) ==
    LET parts == split(location, "?")
        pairs == IF Len(parts) < 2 \/ Len(parts[2]) = 0 THEN <<>>
                 ELSE split(parts[2], "&")
    IN [uri |-> parts[1],
        querystring |->
           [defined |-> TRUE,
            params |-> [i \in 1..Len(pairs) |->
                          LET e == split(pairs[i], "=")
                          IN [name |-> ParamName(e[1]),
                              value |-> IF Len(e) >= 2 THEN e[2] ELSE <<>>]]],
        headers |-> headers]

\* the formats and widths (0: no query) with which a client's request for the
\* source of the event is normalized to the path of the event
ProducedFrom ==
    {fw \in {AVIF, WEBP, JPEG} \X ({0} \cup Range(COMMON_WIDTHS)) :
        handler(ClientRequest(lambdaEvent.source, fw[1], fw[2])).request.uri
          = lambdaEvent.path}

\* the widths a client asks for: none, small, common, and around the maximum
RoundTripWidths ==
    {0, MaxSmall} \cup Range(COMMON_WIDTHS) \cup {MAX_WIDTH, MAX_WIDTH + MaxOver}

(***************************************************************************)
(* C33. When the Variant Orchestrator answers 302 for a request whose path *)
(* the Key Normalizer produced, the Location (the path, and the operations *)
(* as query parameters) passed through the Key Normalizer with the same    *)
(* Accept header gives the path of the request again, whose key is the key *)
(* under which the oversized variant has just been stored. The same holds  *)
(* of the Location built for every path the Key Normalizer produces for a  *)
(* source, a negotiated format and a width.                                *)
(***************************************************************************)
C33_RedirectRoundTrip ==
    /\ (Responded /\ response.statusCode = 302)
       => \A fw \in ProducedFrom :
             LET back == handler(FollowRedirect(
                            response.headers.Location,
                            ClientRequest(lambdaEvent.source, fw[1], fw[2]).headers))
             IN /\ ~back.caught
                /\ back.request.uri = lambdaEvent.path
                /\ VariantKey(OriginalImagePathOf(back.request.uri),
                              OperationsPrefixOf(back.request.uri)) = RequestedKey
                /\ \E r \in transformedStore :
                      r.Key = RequestedKey /\ r.Body = transformedImage
    /\ (orchPc = "invoked" /\ invocations = 1)
       => \A p \in {A_JPG, I_B}, f \in {AVIF, WEBP, JPEG}, w \in RoundTripWidths :
             LET uri == handler(ClientRequest(p, f, w)).request.uri
                 location == LocationOf(OriginalImagePathOf(uri), OperationsPrefixOf(uri))
                 back == handler(FollowRedirect(location, ClientRequest(p, f, w).headers))
             IN ~back.caught /\ back.request.uri = uri

C33_Witness ==
    /\ Responded
    /\ response.statusCode = 302
    /\ <<AVIF, 300>> \in ProducedFrom
    /\ response.headers.Location
         = <<"/", "a", ".", "j", "p", "g", "?", "f", "o", "r", "m", "a", "t", "=", "a", "v", "i", "f",
             "&", "w", "i", "d", "t", "h", "=", "3", "0", "0">>
    /\ handler(FollowRedirect(response.headers.Location,
                              ClientRequest(A_JPG, AVIF, 300).headers)).request.uri
         = lambdaEvent.path
    /\ \E r \in transformedStore : r.Key = RequestedKey

=============================================================================
